---- MODULE Spec2Model ----
(***************************************************************************)
(* Verification model of KuiX (Shaft-3796/KuiX-develop): the framed socket *)
(* transport, the request multiplexer layered on it, the connection        *)
(* handshake with the Core host table, and the worker lifecycle served by  *)
(* a KxProcess.  Each layer has its own specification over its own group   *)
(* of variables; the other groups stay unchanged under it.                 *)
(*                                                                         *)
(*   SpecFrame   bytes on one connection, SocketServer/SocketClient        *)
(*               listen_for_connection and send_data                       *)
(***************************************************************************)
EXTENDS Integers, Sequences, FiniteSets, TLC

(***************************************************************************)
(* Generic helpers                                                         *)
(***************************************************************************)
Range(s) == {s[i] : i \in 1..Len(s)}

IsPrefix(s, t) == Len(s) <= Len(t) /\ SubSeq(t, 1, Len(s)) = s

Min(a, b) == IF a <= b THEN a ELSE b

(***************************************************************************)
(*                         FRAME TRANSPORT                                 *)
(* One direction of one TCP connection: the bytes written by send_data     *)
(* (and by the writer's idle receive loop) and the reader's receive loop.  *)
(***************************************************************************)
VARIABLES
    wire,        \* bytes written to the socket and not yet read
    buffer,      \* the receive loop's local `buffer`
    sent,        \* messages handed to send_data, in call order
    delivered,   \* messages given to on_message_received, in order
    keepalives   \* number of keepalive writes made so far

frameVars == <<wire, buffer, sent, delivered, keepalives>>

\* Bounds of the frame model
MaxFrames == 2
MaxMsg == 2
MaxKeepAlive == 1

\* int(EOT, 16)
EOT == 4

\* connection.recv(1024)
RecvSize == 1024

\* The keepalive payload written by an idle receive loop: one byte that is
\* neither the sentinel nor a byte of a JSON document.
IGNORE == <<24>>

Msgs == 1..MaxMsg

\* json.dumps(data).encode("utf-8"): a document is an object, it opens with
\* '{' (123) and closes with '}' (125); its content byte stands for the data.
JsonDumps(m) == <<123, 48 + m, 125>>

\* json.loads raises unless the bytes are exactly one document.
JsonValid(b) == Len(b) = 3 /\ b[1] = 123 /\ b[3] = 125 /\ (b[2] - 48) \in Msgs

JsonLoads(b) == b[2] - 48

\* What send_data writes for one message.
EncodeFrame(m) == JsonDumps(m) \o <<EOT>>

\* Index of the first sentinel of a chunk, 0 when it has none.
FirstEOT(data) ==
    IF \E i \in 1..Len(data) : data[i] = EOT
    THEN CHOOSE i \in 1..Len(data) :
            data[i] = EOT /\ \A j \in 1..(i - 1) : data[j] # EOT
    ELSE 0

\* flush_buffer: the message to trigger (0: none) and the buffer afterwards.
\* When json.loads raises, the assignment buffer = b'' is not reached.
FlushBuffer(buf) ==
    IF buf = IGNORE THEN [msg |-> 0, buf |-> <<>>]
    ELSE IF JsonValid(buf) THEN [msg |-> JsonLoads(buf), buf |-> <<>>]
    ELSE [msg |-> 0, buf |-> buf]

\* The `for byte in data` loop of the receive loop: bytes are appended up to
\* the first sentinel, the buffer is flushed there and the loop breaks.
ScanChunk(buf, data) ==
    IF data = IGNORE THEN [msg |-> 0, buf |-> buf]
    ELSE LET i == FirstEOT(data) IN
         IF i = 0 THEN [msg |-> 0, buf |-> buf \o data]
         ELSE FlushBuffer(buf \o SubSeq(data, 1, i - 1))

InitFrame ==
    /\ wire = <<>>
    /\ buffer = <<>>
    /\ sent = <<>>
    /\ delivered = <<>>
    /\ keepalives = 0

\* send_data(data): connection.sendall(json.dumps(data) + EOT)
SendData(m) ==
    /\ Len(sent) < MaxFrames
    /\ wire' = wire \o EncodeFrame(m)
    /\ sent' = Append(sent, m)
    /\ UNCHANGED <<buffer, delivered, keepalives>>

\* The writer's own receive loop found nothing to read for a second and
\* wrote the keepalive on the same socket: connection.send(IGNORE)
SendKeepAlive ==
    /\ keepalives < MaxKeepAlive
    /\ wire' = wire \o IGNORE
    /\ keepalives' = keepalives + 1
    /\ UNCHANGED <<buffer, sent, delivered>>

\* One pass of the receive loop with data ready: recv returns the next n
\* bytes of the stream, for any n the kernel may choose.
RecvChunk(n) ==
    /\ n \in 1..Min(Len(wire), RecvSize)
    /\ LET r == ScanChunk(buffer, SubSeq(wire, 1, n)) IN
        /\ buffer' = r.buf
        /\ delivered' = IF r.msg = 0 THEN delivered ELSE Append(delivered, r.msg)
    /\ wire' = SubSeq(wire, n + 1, Len(wire))
    /\ UNCHANGED <<sent, keepalives>>


(***************************************************************************)
(* A peer that writes a frame whose bytes are no JSON document.            *)
(***************************************************************************)
VARIABLES
    garbage      \* number of frames written that are no JSON document

garbageVars == <<garbage>>

\* frames that are no JSON document a behaviour may hold
MaxGarbage == 1

\* bytes that json.loads rejects, followed by the sentinel
BadFrame == <<120, EOT>>

InitGarbage == garbage = 0

\* connection.sendall of a frame that was not made by json.dumps
SendBadFrame ==
    /\ garbage < MaxGarbage
    /\ garbage' = garbage + 1
    /\ wire' = wire \o BadFrame
    /\ UNCHANGED <<buffer, sent, delivered, keepalives>>

(***************************************************************************)
(*                     WRITERS OF ONE CONNECTION                           *)
(* The threads that write to the socket of one connection: user threads in *)
(* send_data, and the connection's receive loop with its keepalive.  The   *)
(* code takes no lock around a write, and sendall hands the frame to the   *)
(* kernel in as many pieces as the kernel accepts.                         *)
(***************************************************************************)
VARIABLES
    sending     \* sending[t]: bytes of thread t's sendall not yet written

writeVars == <<sending>>

\* Bound of the writers model
NWriters == 2

Writers == 1..NWriters

\* Whether a byte stream is a sequence of whole writes (frames and
\* keepalives), the last one possibly still in progress.
RECURSIVE WholeWrites(_)
WholeWrites(s) ==
    IF s = <<>> THEN TRUE
    ELSE IF <<s[1]>> = IGNORE THEN WholeWrites(Tail(s))
    ELSE \E m \in Msgs :
            LET f == EncodeFrame(m) IN
            IF Len(s) >= Len(f)
            THEN /\ SubSeq(s, 1, Len(f)) = f
                 /\ WholeWrites(SubSeq(s, Len(f) + 1, Len(s)))
            ELSE IsPrefix(s, f)

InitWrite == sending = [t \in Writers |-> <<>>]

\* send_data(data) is entered by thread t: the frame is encoded and sendall
\* is called.
SendAllBegin(t, m) ==
    /\ sending[t] = <<>>
    /\ Len(sent) < MaxFrames
    /\ sending' = [sending EXCEPT ![t] = EncodeFrame(m)]
    /\ sent' = Append(sent, m)
    /\ UNCHANGED <<wire, buffer, delivered, keepalives>>

\* sendall: one send of the loop inside it, the kernel takes the next n
\* bytes of what is left.
SendAllWrite(t, n) ==
    /\ n \in 1..Len(sending[t])
    /\ wire' = wire \o SubSeq(sending[t], 1, n)
    /\ sending' = [sending EXCEPT ![t] = SubSeq(@, n + 1, Len(@))]
    /\ UNCHANGED <<buffer, sent, delivered, keepalives>>

\* connection.send(IGNORE) of the receive loop of the same process
KeepAliveWrite ==
    /\ SendKeepAlive
    /\ UNCHANGED sending
(***************************************************************************)
(*                        REQUEST MULTIPLEXER                              *)
(* IpcServer (the Core) and IpcClient (one host) on one connection.  Each  *)
(* peer has user threads that call send_blocking_request and one receive   *)
(* thread that runs handle_request, and with it the endpoint handler, for  *)
(* every frame it reads.                                                   *)
(***************************************************************************)
VARIABLES
    inbox,      \* inbox[p]: frames written to the connection towards p, unread
    pending,    \* pending[p]: blocking_requests of p, rid -> [sem, resp]
    caller,     \* caller[p][t]: a user thread of p inside send_blocking_request
    rx,         \* rx[p]: where the receive thread of p is
    nextRid,    \* the next request id uuid4 mints (ids never repeat)
    respSent,   \* respSent[rid]: data of the RESPONSE frames sent for rid
    returned,   \* returned[rid]: what send_blocking_request returned
    warnings,   \* warnings[p]: what p logged while handling frames: the rtypes
                \* of frames to unknown endpoints, the kinds of errors caught
    handled     \* handled[p]: names of the one-way endpoints whose handler p ran

ipcVars == <<inbox, pending, caller, rx, nextRid, respSent, returned,
             warnings, handled>>

\* Bounds of the multiplexer model
MaxCalls == 2
NThreads == 1
MaxData == 1
\* Bounds of the scenario where a pool of threads of the Core calls the host
NPool == 2
MaxPayload == 2

Peers == {"core", "host"}

Other(p) == IF p = "core" THEN "host" ELSE "core"

Threads == 1..NThreads

\* The receive thread, when it is the one inside send_blocking_request
RxThread == 0

\* The threads of the pool
Pool == 1..NPool

Callers == Threads \cup Pool \cup {RxThread}

Data == 1..MaxData

Payloads == 1..MaxPayload

Rids == 1..MaxCalls

\* for i in range(2): the sleeps handle_request makes for an unknown rid
RetrySleeps == 2

FIRE_AND_FORGET == "FIRE_AND_FORGET"
BLOCKING == "BLOCKING"
RESPONSE == "RESPONSE"

\* The blocking endpoints registered on both peers: "echo" answers with the
\* data it got, "twice" answers two times, "relay" asks the other peer's echo
\* with send_blocking_request and answers with what it got, "poll" waits for
\* another thread of its process before it answers (the shape of the host's
\* stop_worker).  "nope" is registered nowhere.
BlockingEndpoints == {"echo", "twice", "relay", "poll"}

OneWayEndpoints == {"note"}

RequestNames == BlockingEndpoints \cup {"nope"}

OneWayNames == OneWayEndpoints \cup {"nope"}

\* Endpoints, registered one-way and blocking, whose handler raises.
Raising == {"boom"}

\* A blocking endpoint whose handler calls send_response two times for the
\* request, the second time with other data.
Amending == {"amend"}

\* the data of the second send_response of "amend"
Amended(d) == d + MaxPayload

\* Frames a peer writes with send_data itself: an rtype that is none of the
\* three, no field rtype, no field endpoint.
RawFrames ==
    { [rtype |-> "BOGUS", endpoint |-> "note", data |-> 1, rid |-> 0],
      [endpoint |-> "note", data |-> 1, rid |-> 0],
      [rtype |-> FIRE_AND_FORGET, data |-> 1, rid |-> 0] }

\* Whether handle_request raises KeyError on the envelope: data["rtype"],
\* data["endpoint"], data["rid"].
KeyErrorRaised(f) ==
    \/ "rtype" \notin DOMAIN f
    \/ f.rtype \in {FIRE_AND_FORGET, BLOCKING} /\ "endpoint" \notin DOMAIN f
    \/ f.rtype = RESPONSE /\ "rid" \notin DOMAIN f

\* if data["endpoint"] not in ep
Registered(ep, name) == name \in ep

\* The first thread of a pool that is not inside send_blocking_request (the
\* last one when all are).
FreeThread(p, pool) ==
    IF \E t \in pool : caller[p][t].pc = "idle"
    THEN CHOOSE t \in pool : /\ caller[p][t].pc = "idle"
                             /\ \A u \in pool : caller[p][u].pc = "idle" => t <= u
    ELSE CHOOSE t \in pool : \A u \in pool : u <= t

NoCaller == [pc |-> "idle", rid |-> 0, endpoint |-> "none", data |-> 0]

\* Fault model of RequestKey: the response goes to the oldest entry of the
\* table.
OldestKey(table, f) == CHOOSE k \in DOMAIN table : \A j \in DOMAIN table : k <= j

\* the key handle_request looks the entry up with: data["rid"]
RequestKey(table, f) == f.rid

Frame(rtype, endpoint, data, rid) ==
    [rtype |-> rtype, endpoint |-> endpoint, data |-> data, rid |-> rid]

\* A table without the entry of key k (del table[k]).
Without(f, k) == [x \in DOMAIN f \ {k} |-> f[x]]

\* send_data towards the peer q: one frame, in order.
SendTo(box, q, f) == [box EXCEPT ![q] = Append(@, f)]

\* send_response(endpoint, data, rid)
SendResponse(box, q, endpoint, data, rid) ==
    SendTo(box, q, Frame(RESPONSE, endpoint, data, rid))

\* Fault model of FillSlot: the waiter is released but the slot keeps the
\* value send_blocking_request created it with.
FillSlotKeepsNone(table, rid, data) ==
    [table EXCEPT ![rid] = [sem |-> @.sem + 1, resp |-> @.resp]]

\* The RESPONSE branch of handle_request, entry found:
\* blocking_requests[rid][1] = data; blocking_requests[rid][0].release()
FillSlot(table, rid, data) ==
    [table EXCEPT ![rid] = [sem |-> @.sem + 1, resp |-> data]]

LogResponse(log, rid, data) == [log EXCEPT ![rid] = Append(@, data)]

InitIpc ==
    /\ inbox = [p \in Peers |-> <<>>]
    /\ pending = [p \in Peers |-> <<>>]
    /\ caller = [p \in Peers |-> [t \in Callers |-> NoCaller]]
    /\ rx = [p \in Peers |-> [pc |-> "idle", rid |-> 0, sub |-> 0, tries |-> 0]]
    /\ nextRid = 1
    /\ respSent = [r \in Rids |-> <<>>]
    /\ returned = <<>>
    /\ warnings = [p \in Peers |-> {}]
    /\ handled = [p \in Peers |-> {}]

RxIdle == [pc |-> "idle", rid |-> 0, sub |-> 0, tries |-> 0]

\* send_blocking_request up to semaphore.acquire(): mint the rid, insert the
\* entry, send the frame.
CallBegin(p, t, endpoint, d) ==
    /\ caller[p][t].pc = "idle"
    /\ nextRid \in Rids
    /\ pending' = [pending EXCEPT ![p] = @ @@ (nextRid :> [sem |-> 0, resp |-> 0])]
    /\ inbox' = SendTo(inbox, Other(p), Frame(BLOCKING, endpoint, d, nextRid))
    /\ caller' = [caller EXCEPT ![p][t] = [pc |-> "waiting", rid |-> nextRid,
                                           endpoint |-> endpoint, data |-> d]]
    /\ nextRid' = nextRid + 1
    /\ UNCHANGED <<rx, respSent, returned, warnings, handled>>

\* send_blocking_request, first half, when other threads of the process run
\* between its statements: the rid is minted and the entry inserted.
CallInsert(p, t, endpoint, d) ==
    /\ caller[p][t].pc = "idle"
    /\ nextRid \in Rids
    /\ pending' = [pending EXCEPT ![p] = @ @@ (nextRid :> [sem |-> 0, resp |-> 0])]
    /\ caller' = [caller EXCEPT ![p][t] = [pc |-> "inserted", rid |-> nextRid,
                                           endpoint |-> endpoint, data |-> d]]
    /\ nextRid' = nextRid + 1
    /\ UNCHANGED <<inbox, rx, respSent, returned, warnings, handled>>

\* send_blocking_request, second half: send_data writes the frame, and the
\* thread waits on the semaphore.
CallSend(p, t) ==
    /\ caller[p][t].pc = "inserted"
    /\ inbox' = SendTo(inbox, Other(p),
                       Frame(BLOCKING, caller[p][t].endpoint, caller[p][t].data,
                             caller[p][t].rid))
    /\ caller' = [caller EXCEPT ![p][t].pc = "waiting"]
    /\ UNCHANGED <<pending, rx, nextRid, respSent, returned, warnings, handled>>

\* send_blocking_request, second half, when send_data raises (the identifier
\* is not in the connection table, or the socket is closed): the error is
\* raised again with a note, and the statements after the try are not reached.
CallSendFails(p, t) ==
    /\ caller[p][t].pc = "inserted"
    /\ caller' = [caller EXCEPT ![p][t] = NoCaller]
    /\ UNCHANGED <<inbox, pending, rx, nextRid, respSent, returned, warnings,
                   handled>>

\* send_blocking_request from semaphore.acquire() on: take the slot, delete
\* the entry, return.  When the caller is the relay handler, on the receive
\* thread, the handler goes on: it answers the request it was handling and
\* returns to the receive loop.
CallReturn(p, t) ==
    LET rid == caller[p][t].rid IN
    /\ caller[p][t].pc = "waiting"
    /\ rid \in DOMAIN pending[p]
    /\ pending[p][rid].sem > 0
    /\ returned' = returned @@ (rid :> pending[p][rid].resp)
    /\ pending' = [pending EXCEPT ![p] = Without(@, rid)]
    /\ caller' = [caller EXCEPT ![p][t] = NoCaller]
    /\ IF t = RxThread
       THEN /\ inbox' = SendResponse(inbox, Other(p), "relay",
                                     pending[p][rid].resp, rx[p].rid)
            /\ respSent' = LogResponse(respSent, rx[p].rid, pending[p][rid].resp)
            /\ rx' = [rx EXCEPT ![p] = RxIdle]
       ELSE UNCHANGED <<inbox, rx, respSent>>
    /\ UNCHANGED <<nextRid, warnings, handled>>

\* send_fire_and_forget_request
SendOneWay(p, endpoint, d) ==
    /\ Len(inbox[Other(p)]) = 0
    /\ inbox' = SendTo(inbox, Other(p), Frame(FIRE_AND_FORGET, endpoint, d, 0))
    /\ UNCHANGED <<pending, caller, rx, nextRid, respSent, returned,
                   warnings, handled>>

\* Fault model of DropUnknown: the receiver answers the unknown request.
AnswerUnknown(p, f, rest) ==
    /\ inbox' = SendResponse([inbox EXCEPT ![p] = rest], Other(p),
                             f.endpoint, f.data, f.rid)
    /\ respSent' = IF f.rid \in Rids THEN LogResponse(respSent, f.rid, f.data)
                                     ELSE respSent
    /\ warnings' = warnings
    /\ UNCHANGED <<pending, caller, rx, nextRid, handled>>

\* handle_request, the endpoint is not in the table of the frame's rtype:
\* LOGGER.warning(..); return
DropUnknown(p, f, rest) ==
    /\ inbox' = [inbox EXCEPT ![p] = rest]
    /\ warnings' = [warnings EXCEPT ![p] = @ \cup {f.rtype}]
    /\ UNCHANGED <<pending, caller, rx, nextRid, respSent, handled>>

\* Fault model of LogError: the exception leaves handle_request and ends
\* the receive thread.
Propagates(p, f, rest, kind) ==
    /\ inbox' = [inbox EXCEPT ![p] = rest]
    /\ rx' = [rx EXCEPT ![p].pc = "dead"]
    /\ UNCHANGED <<pending, caller, nextRid, respSent, warnings, handled>>

\* handle_request: except KeyError / except Exception, and the branch of an
\* unknown request type: the error is logged and handle_request returns.
LogError(p, f, rest, kind) ==
    /\ inbox' = [inbox EXCEPT ![p] = rest]
    /\ warnings' = [warnings EXCEPT ![p] = @ \cup {kind}]
    /\ UNCHANGED <<pending, caller, rx, nextRid, respSent, handled>>

\* handle_request for a BLOCKING frame, run by the receive thread itself.
HandleBlocking(p, f, rest) ==
    CASE ~Registered(BlockingEndpoints \cup Raising \cup Amending, f.endpoint) ->
            DropUnknown(p, f, rest)
      [] f.endpoint \in Raising -> LogError(p, f, rest, "RequestHandlerError")
      [] f.endpoint = "echo" ->
            /\ inbox' = SendResponse([inbox EXCEPT ![p] = rest], Other(p),
                                     f.endpoint, f.data, f.rid)
            /\ respSent' = LogResponse(respSent, f.rid, f.data)
            /\ UNCHANGED <<pending, caller, rx, nextRid, warnings, handled>>
      [] f.endpoint = "twice" ->
            /\ inbox' = SendResponse(
                            SendResponse([inbox EXCEPT ![p] = rest], Other(p),
                                         f.endpoint, f.data, f.rid),
                            Other(p), f.endpoint, f.data, f.rid)
            /\ respSent' = LogResponse(LogResponse(respSent, f.rid, f.data),
                                       f.rid, f.data)
            /\ UNCHANGED <<pending, caller, rx, nextRid, warnings, handled>>
      [] f.endpoint = "amend" ->
            /\ inbox' = SendResponse(
                            SendResponse([inbox EXCEPT ![p] = rest], Other(p),
                                         f.endpoint, f.data, f.rid),
                            Other(p), f.endpoint, Amended(f.data), f.rid)
            /\ respSent' = LogResponse(LogResponse(respSent, f.rid, f.data),
                                       f.rid, Amended(f.data))
            /\ UNCHANGED <<pending, caller, rx, nextRid, warnings, handled>>
      [] f.endpoint = "relay" ->
            \* the handler calls send_blocking_request and waits in it
            /\ nextRid \in Rids
            /\ pending' = [pending EXCEPT
                              ![p] = @ @@ (nextRid :> [sem |-> 0, resp |-> 0])]
            /\ inbox' = SendTo([inbox EXCEPT ![p] = rest], Other(p),
                               Frame(BLOCKING, "echo", f.data, nextRid))
            /\ caller' = [caller EXCEPT
                             ![p][RxThread] = [pc |-> "waiting", rid |-> nextRid,
                                               endpoint |-> "echo",
                                               data |-> f.data]]
            /\ rx' = [rx EXCEPT ![p] = [pc |-> "relay", rid |-> f.rid,
                                        sub |-> nextRid, tries |-> 0]]
            /\ nextRid' = nextRid + 1
            /\ UNCHANGED <<respSent, warnings, handled>>
      [] f.endpoint = "poll" ->
            /\ inbox' = [inbox EXCEPT ![p] = rest]
            /\ rx' = [rx EXCEPT ![p] = [pc |-> "poll", rid |-> f.rid,
                                        sub |-> f.data, tries |-> 0]]
            /\ UNCHANGED <<pending, caller, nextRid, respSent, warnings, handled>>

\* handle_request for a FIRE_AND_FORGET frame: the one-way handler runs and
\* returns, or the name is unknown.
HandleOneWay(p, f, rest) ==
    IF ~Registered(OneWayEndpoints \cup Raising, f.endpoint)
    THEN DropUnknown(p, f, rest)
    ELSE IF f.endpoint \in Raising
    THEN LogError(p, f, rest, "RequestHandlerError")
    ELSE /\ inbox' = [inbox EXCEPT ![p] = rest]
         /\ handled' = [handled EXCEPT ![p] = @ \cup {f.endpoint}]
         /\ UNCHANGED <<pending, caller, rx, nextRid, respSent, warnings>>

\* handle_request for a RESPONSE frame: the entry is looked up, and when it
\* is missing the thread sleeps and looks again.
HandleResponse(p, f, rest) ==
    /\ inbox' = [inbox EXCEPT ![p] = rest]
    /\ IF f.rid \in DOMAIN pending[p]
       THEN /\ pending' = [pending EXCEPT
                              ![p] = FillSlot(@, RequestKey(pending[p], f), f.data)]
            /\ UNCHANGED rx
       ELSE /\ rx' = [rx EXCEPT ![p] = [pc |-> "retry", rid |-> f.rid,
                                        sub |-> f.data, tries |-> 1]]
            /\ UNCHANGED pending
    /\ UNCHANGED <<caller, nextRid, respSent, warnings, handled>>

\* The receive loop reads the next frame and on_message_received runs
\* handle_request on it, on the receive thread.
RecvFrame(p) ==
    /\ rx[p].pc = "idle"
    /\ inbox[p] # <<>>
    /\ LET f == Head(inbox[p])
           rest == Tail(inbox[p]) IN
        IF KeyErrorRaised(f)
        THEN LogError(p, f, rest, "KeyError")
        ELSE CASE f.rtype = BLOCKING -> HandleBlocking(p, f, rest)
               [] f.rtype = RESPONSE -> HandleResponse(p, f, rest)
               [] f.rtype = FIRE_AND_FORGET -> HandleOneWay(p, f, rest)
               [] OTHER -> LogError(p, f, rest, "UnknownRequestType")
    /\ UNCHANGED returned

\* The receive loop reads a one-way frame and __trigger__ runs the callbacks
\* of on_message_received: one registered by the user, which raises, and
\* handle_request.  __trigger__ catches and logs what a callback raises and
\* goes on with the next callback.
RecvFrameCallbackRaises(p) ==
    /\ rx[p].pc = "idle"
    /\ inbox[p] # <<>>
    /\ LET f == Head(inbox[p]) IN
        /\ ~KeyErrorRaised(f)
        /\ f.rtype = FIRE_AND_FORGET
        /\ Registered(OneWayEndpoints, f.endpoint)
        /\ handled' = [handled EXCEPT ![p] = @ \cup {f.endpoint}]
    /\ inbox' = [inbox EXCEPT ![p] = Tail(@)]
    /\ warnings' = [warnings EXCEPT ![p] = @ \cup {"EventCallbackError"}]
    /\ UNCHANGED <<pending, caller, rx, nextRid, respSent, returned>>

\* send_data(data) with a frame the caller built itself
SendRaw(p, f) ==
    /\ Len(inbox[Other(p)]) = 0
    /\ inbox' = SendTo(inbox, Other(p), f)
    /\ UNCHANGED <<pending, caller, rx, nextRid, respSent, returned,
                   warnings, handled>>

\* A sleep of the RESPONSE branch is over and the entry is looked up again:
\* still missing, the thread sleeps once more (for i in range(2)) and after
\* that drops the frame; found, the slot is filled.
RetryResponse(p) ==
    /\ rx[p].pc = "retry"
    /\ IF rx[p].tries < RetrySleeps /\ rx[p].rid \notin DOMAIN pending[p]
       THEN /\ rx' = [rx EXCEPT ![p].tries = @ + 1]
            /\ UNCHANGED pending
       ELSE /\ rx' = [rx EXCEPT ![p] = RxIdle]
            /\ pending' = IF rx[p].rid \in DOMAIN pending[p]
                          THEN [pending EXCEPT
                                   ![p] = FillSlot(@, rx[p].rid, rx[p].sub)]
                          ELSE pending
    /\ UNCHANGED <<inbox, caller, nextRid, respSent, returned, warnings, handled>>

\* The poll handler's wait is over: it answers and returns.
PollDone(p) ==
    /\ rx[p].pc = "poll"
    /\ inbox' = SendResponse(inbox, Other(p), "poll", rx[p].sub, rx[p].rid)
    /\ respSent' = LogResponse(respSent, rx[p].rid, rx[p].sub)
    /\ rx' = [rx EXCEPT ![p] = RxIdle]
    /\ UNCHANGED <<pending, caller, nextRid, returned, warnings, handled>>
(***************************************************************************)
(*                     CONNECTIONS AND THE HOST TABLE                      *)
(* SocketServer's accept thread and its per-identifier receive threads,    *)
(* the clients that connect to it, and the Core's list kx_processes.       *)
(* A client slot is one TCP connection; a slot is used at most once.       *)
(***************************************************************************)
VARIABLES
    cl,                 \* client slot -> [st, id, key], the client's side
    reply,              \* client slot -> handshake answer the server sent
    srvSock,            \* client slot -> the server's socket object of it
    connections,        \* SocketServer.connections: identifier -> slot
    kx_processes,       \* KuiX.kx_processes, a list of identifiers
    listeners,          \* receive threads, in the order they were started
    unread,             \* client slot -> frames written and not yet read
    received,           \* client slot -> frames given to on_message_received
    ipc_server_closed,  \* SocketServer.ipc_server_closed
    raised              \* outcome of the last Core call: [op, id, exc]

connVars == <<cl, reply, srvSock, connections, kx_processes, listeners,
              unread, received, ipc_server_closed, raised>>

\* connection attempts a behaviour may hold
NClients == 2
\* frames a client may have written and the server not yet read
MaxUnread == 1

Clients == 1..NClients
Ids == {"p1", "p2"}
auth_key == "key"
Keys == {auth_key, "other"}

NoCall == [op |-> "none", id |-> "none", exc |-> "none"]

\* Fault model of KeyAccepted: the comparison is left out.
KeyNotCompared(key) == key = key

\* authentication_payload["key"] == self.auth_key
KeyAccepted(key) == key = auth_key

InitConn ==
    /\ cl = [c \in Clients |-> [st |-> "unused", id |-> "none", key |-> "none"]]
    /\ reply = [c \in Clients |-> "none"]
    /\ srvSock = [c \in Clients |-> "none"]
    /\ connections = <<>>
    /\ kx_processes = <<>>
    /\ listeners = <<>>
    /\ unread = [c \in Clients |-> 0]
    /\ received = [c \in Clients |-> 0]
    /\ ipc_server_closed = FALSE
    /\ raised = NoCall

\* SocketClient.connect up to the wait for the answer: the socket connects
\* and the payload {"identifier", "key"} is written.
Connect(c, id, key) ==
    /\ cl[c].st = "unused"
    /\ \A b \in Clients : b < c => cl[b].st # "unused"
    /\ cl' = [cl EXCEPT ![c] = [st |-> "connecting", id |-> id, key |-> key]]

\* KuiX.create_process(identifier): refused when the identifier is in
\* kx_processes, otherwise a host process is launched, which connects with
\* the Core's key.
CreateProcess(id) ==
    /\ IF id \in Range(kx_processes)
       THEN /\ raised' = [op |-> "create_process", id |-> id,
                          exc |-> "ProcessAlreadyExists"]
            /\ UNCHANGED cl
       ELSE /\ \E c \in Clients : Connect(c, id, auth_key)
            /\ raised' = [op |-> "create_process", id |-> id, exc |-> "none"]
    /\ UNCHANGED <<reply, srvSock, connections, kx_processes, listeners,
                   unread, received, ipc_server_closed>>

\* Any other program that builds a SocketClient with an identifier and a key
\* of its choice and calls connect.
ClientConnect(c, id, key) ==
    /\ Connect(c, id, key)
    /\ UNCHANGED <<reply, srvSock, connections, kx_processes, listeners,
                   unread, received, ipc_server_closed, raised>>

\* One turn of accept_new_connections: the payload is read and the key
\* compared.  Valid: the answer is sent, the connection stored under the
\* identifier, and on_connection_accepted runs its callbacks in order, the
\* server's own (start a receive thread for the identifier) and the Core's
\* (append the identifier to kx_processes).  Invalid: the answer is sent and
\* the connection closed.
Accept(c) ==
    /\ ~ipc_server_closed
    /\ cl[c].st = "connecting"
    /\ IF KeyAccepted(cl[c].key)
       THEN /\ reply' = [reply EXCEPT ![c] = "valid"]
            /\ cl' = [cl EXCEPT ![c].st = "open"]
            /\ srvSock' = [srvSock EXCEPT ![c] = "open"]
            /\ connections' =
                 [i \in DOMAIN connections \cup {cl[c].id} |->
                     IF i = cl[c].id THEN c ELSE connections[i]]
            /\ listeners' = Append(listeners,
                 [id |-> cl[c].id, conn |-> 0, pc |-> "start"])
            /\ kx_processes' = Append(kx_processes, cl[c].id)
       ELSE /\ reply' = [reply EXCEPT ![c] = "invalid"]
            /\ cl' = [cl EXCEPT ![c].st = "refused"]
            /\ srvSock' = [srvSock EXCEPT ![c] = "closed"]
            /\ UNCHANGED <<connections, listeners, kx_processes>>
    /\ UNCHANGED <<unread, received, ipc_server_closed, raised>>

\* The start of listen_for_connection(identifier): the thread returns when
\* the identifier is not in connections, and otherwise reads the connection
\* stored under it now.
ListenStart(t) ==
    /\ listeners[t].pc = "start"
    /\ listeners' = [listeners EXCEPT ![t] =
         IF listeners[t].id \in DOMAIN connections
         THEN [id |-> listeners[t].id, conn |-> connections[listeners[t].id],
               pc |-> "listening"]
         ELSE [id |-> listeners[t].id, conn |-> 0, pc |-> "done"]]
    /\ UNCHANGED <<cl, reply, srvSock, connections, kx_processes, unread,
                   received, ipc_server_closed, raised>>

\* SocketClient.send_data, also by a client that was refused: the frame is
\* written to the client's socket.
ClientSend(c) ==
    /\ cl[c].st \in {"open", "refused"}
    /\ unread[c] < MaxUnread
    /\ unread' = [unread EXCEPT ![c] = @ + 1]
    /\ UNCHANGED <<cl, reply, srvSock, connections, kx_processes, listeners,
                   received, ipc_server_closed, raised>>

\* A receive thread reads a frame of its connection and triggers
\* on_message_received.
ListenRecv(t) ==
    /\ listeners[t].pc = "listening"
    /\ ~ipc_server_closed
    /\ srvSock[listeners[t].conn] = "open"
    /\ unread[listeners[t].conn] > 0
    /\ unread' = [unread EXCEPT ![listeners[t].conn] = @ - 1]
    /\ received' = [received EXCEPT ![listeners[t].conn] = Min(@ + 1, MaxUnread)]
    /\ UNCHANGED <<cl, reply, srvSock, connections, kx_processes, listeners,
                   ipc_server_closed, raised>>

\* The client's side of the connection ends: SocketClient.close, or the
\* host process is killed.
ClientClose(c) ==
    /\ cl[c].st \in {"open", "refused"}
    /\ cl' = [cl EXCEPT ![c].st = "closed"]
    /\ UNCHANGED <<reply, srvSock, connections, kx_processes, listeners,
                   unread, received, ipc_server_closed, raised>>

\* The end of listen_for_connection: the peer has closed (recv returns no
\* bytes, or the keep-alive write or the read fails) or the server is
\* closed.  The connection is closed, connections.pop(identifier) removes
\* whatever is stored under the identifier, and on_connection_closed is
\* triggered, for which the Core registers no callback.
ListenTeardown(t) ==
    /\ listeners[t].pc = "listening"
    /\ \/ ipc_server_closed
       \/ /\ srvSock[listeners[t].conn] = "open"
          /\ cl[listeners[t].conn].st = "closed"
          /\ unread[listeners[t].conn] = 0
    /\ srvSock' = [srvSock EXCEPT ![listeners[t].conn] = "closed"]
    /\ connections' =
         [i \in DOMAIN connections \ {listeners[t].id} |-> connections[i]]
    /\ listeners' = [listeners EXCEPT ![t].pc = "done"]
    /\ UNCHANGED <<cl, reply, kx_processes, unread, received,
                   ipc_server_closed, raised>>

\* SocketServer.close
ServerClose ==
    /\ ~ipc_server_closed
    /\ ipc_server_closed' = TRUE
    /\ UNCHANGED <<cl, reply, srvSock, connections, kx_processes, listeners,
                   unread, received, raised>>

\* The entry of KuiX.create_worker, start_worker, stop_worker, close_worker
\* and close_process, the same in each: ProcessNotFound when the identifier
\* is not in kx_processes; otherwise the request is sent, and send_data
\* raises SocketServerClientNotFound when connections has no such identifier.
CoreCall(id) ==
    /\ raised' = [op |-> "host_call", id |-> id,
                  exc |-> IF id \notin Range(kx_processes)
                             THEN "ProcessNotFound"
                          ELSE IF id \notin DOMAIN connections
                             THEN "SocketServerClientNotFound"
                          ELSE "none"]
    /\ UNCHANGED <<cl, reply, srvSock, connections, kx_processes, listeners,
                   unread, received, ipc_server_closed>>


(***************************************************************************)
(*                    CONFIGURATION AND THE AUTH KEY                       *)
(* KuiX.configure, KuiX.start and KuiX.create_process as far as the        *)
(* authentication key goes, and the key comparison of the accept thread    *)
(* with the key as the server was given it.                                *)
(***************************************************************************)
VARIABLES
    configured,        \* KuiX.configured
    core_auth_key,     \* KuiX.auth_key, "None" until configure
    server_auth_key,   \* KuiX.ipc_server.auth_key, "None" while no server
    started,           \* KuiX.start was called on a server
    configure_calls,   \* calls of configure so far
    login              \* client slot -> [st, key] of its handshake

cfgVars == <<configured, core_auth_key, server_auth_key, started,
             configure_calls, login>>

\* calls of configure a behaviour may hold
MaxConfigure == 2

\* os.urandom(256).hex(): 512 hexadecimal digits, never the empty string
generate_auth_key == "generated"

\* keys a caller of configure or a client may come with; "" is the default
\* of configure and of the generated json configuration
AuthKeys == {"", "k1", generate_auth_key}

InitConfig ==
    /\ configured = FALSE
    /\ core_auth_key = "None"
    /\ server_auth_key = "None"
    /\ started = FALSE
    /\ configure_calls = 0
    /\ login = [c \in Clients |-> [st |-> "unused", key |-> "None"]]

\* KuiX.configure(auth_key=key): the key is stored as it was given and is
\* handed to IpcServer; when the bind fails SocketServerBindError leaves
\* ipc_server as it was, with configured and auth_key already assigned.
configure(key, bind_ok) ==
    /\ configure_calls < MaxConfigure
    /\ configure_calls' = configure_calls + 1
    /\ core_auth_key' = key
    /\ configured' = TRUE
    /\ server_auth_key' = IF bind_ok THEN key ELSE server_auth_key
    /\ started' = IF bind_ok THEN FALSE ELSE started
    /\ UNCHANGED login

\* KuiX.start: @configured, then ipc_server.accept_new_connections().
start ==
    /\ configured
    /\ server_auth_key # "None"
    /\ ~started
    /\ started' = TRUE
    /\ UNCHANGED <<configured, core_auth_key, server_auth_key,
                   configure_calls, login>>

\* KuiX.create_process: @configured; the KxProcess is launched with
\* self.auth_key and presents it in its authentication payload.
LaunchProcess(c) ==
    /\ configured
    /\ login[c].st = "unused"
    /\ login' = [login EXCEPT ![c] = [st |-> "presented",
                                      key |-> core_auth_key]]
    /\ UNCHANGED <<configured, core_auth_key, server_auth_key, started,
                   configure_calls>>

\* SocketClient.connect of a client that was not launched by this Core: the
\* payload {"identifier", "key"} holds whatever key it was made with.
PresentKey(c, key) ==
    /\ login[c].st = "unused"
    /\ login' = [login EXCEPT ![c] = [st |-> "presented", key |-> key]]
    /\ UNCHANGED <<configured, core_auth_key, server_auth_key, started,
                   configure_calls>>

\* Fault model of CheckKey: an empty key is always refused.
CheckKeyNonEmpty(key) == key # "" /\ key = server_auth_key

\* authentication_payload["key"] == self.auth_key
CheckKey(key) == key = server_auth_key

\* The accept thread answers {"status": "valid"} or {"status": "invalid"}.
Authenticate(c) ==
    /\ started
    /\ login[c].st = "presented"
    /\ login' = [login EXCEPT ![c].st =
                    IF CheckKey(login[c].key) THEN "valid" ELSE "invalid"]
    /\ UNCHANGED <<configured, core_auth_key, server_auth_key, started,
                   configure_calls>>

(***************************************************************************)
(*                      CLOSING THE TRANSPORT                              *)
(* SocketServer.close and SocketClient.close, called any number of times,  *)
(* the accept thread, and the receive threads with the handler that        *)
(* on_message_received runs on them.  The connections are those of the     *)
(* group above.                                                            *)
(***************************************************************************)
VARIABLES
    accepting_new_connections,  \* SocketServer.accepting_new_connections
    accept_thread,              \* "running" or "stopped"
    listen_socket,              \* the server's listening socket
    handler,                    \* receive thread -> the handler it is inside
    on_server_closed,           \* times the on_server_closed callbacks ran
    on_client_closed,           \* client slot -> times on_client_closed ran
    on_connection_closed        \* receive thread -> from_server of each event

closeVars == <<accepting_new_connections, accept_thread, listen_socket,
               handler, on_server_closed, on_client_closed,
               on_connection_closed>>

\* calls of close() on one instance
MaxClose == 2

\* What a handler does: it returns, or it waits for something that only its
\* own receive thread could bring (a response to a request it sent to the
\* peer with send_blocking_request).
HandlerKinds == {"returns", "waits"}

InitClose ==
    /\ accepting_new_connections = TRUE
    /\ accept_thread = "running"
    /\ listen_socket = "open"
    /\ handler = [t \in Clients |-> "none"]
    /\ on_server_closed = 0
    /\ on_client_closed = [c \in Clients |-> 0]
    /\ on_connection_closed = [t \in Clients |-> <<>>]

\* SocketServer.close(): the two flags, socket.close(), and the callbacks of
\* on_server_closed.  Closing a closed socket does nothing and raises nothing.
ServerCloseCall ==
    /\ on_server_closed < MaxClose
    /\ accepting_new_connections' = FALSE
    /\ ipc_server_closed' = TRUE
    /\ listen_socket' = "closed"
    /\ on_server_closed' = on_server_closed + 1
    /\ UNCHANGED <<cl, reply, srvSock, connections, kx_processes, listeners,
                   unread, received, raised, accept_thread, handler,
                   on_client_closed, on_connection_closed>>

\* SocketClient.close(): the flag, socket.close(), and the callbacks of
\* on_client_closed.
ClientCloseCall(c) ==
    /\ cl[c].st \in {"open", "closed"}
    /\ on_client_closed[c] < MaxClose
    /\ cl' = [cl EXCEPT ![c].st = "closed"]
    /\ on_client_closed' = [on_client_closed EXCEPT ![c] = @ + 1]
    /\ UNCHANGED <<reply, srvSock, connections, kx_processes, listeners,
                   unread, received, ipc_server_closed, raised,
                   accepting_new_connections, accept_thread, listen_socket,
                   handler, on_server_closed, on_connection_closed>>

\* accept_new_connections: while self.accepting_new_connections, seen false
AcceptStop ==
    /\ accept_thread = "running"
    /\ ~accepting_new_connections
    /\ accept_thread' = "stopped"
    /\ UNCHANGED <<connVars, accepting_new_connections, listen_socket, handler,
                   on_server_closed, on_client_closed, on_connection_closed>>

\* The receive thread reads a frame and flush_buffer triggers
\* on_message_received: the handler runs on the receive thread.
ListenDispatch(t, kind) ==
    /\ t \in DOMAIN listeners
    /\ handler[t] = "none"
    /\ ListenRecv(t)
    /\ handler' = [handler EXCEPT ![t] = kind]
    /\ UNCHANGED <<accepting_new_connections, accept_thread, listen_socket,
                   on_server_closed, on_client_closed, on_connection_closed>>

\* The handler returns and the receive thread is back in its loop.
HandlerReturn(t) ==
    /\ handler[t] = "returns"
    /\ handler' = [handler EXCEPT ![t] = "none"]
    /\ UNCHANGED <<connVars, accepting_new_connections, accept_thread,
                   listen_socket, on_server_closed, on_client_closed,
                   on_connection_closed>>

\* The end of listen_for_connection, reached from the loop: the connection is
\* closed and popped and on_connection_closed triggered, with from_server
\* false when the loop ended on connection_closed and true when it ended on
\* the flag.
ListenExit(t, from_server) ==
    /\ t \in DOMAIN listeners
    /\ handler[t] = "none"
    /\ ListenTeardown(t)
    /\ IF from_server
       THEN ipc_server_closed
       ELSE /\ srvSock[listeners[t].conn] = "open"
            /\ cl[listeners[t].conn].st = "closed"
            /\ unread[listeners[t].conn] = 0
    /\ on_connection_closed' =
          [on_connection_closed EXCEPT ![t] = Append(@, from_server)]
    /\ UNCHANGED <<accepting_new_connections, accept_thread, listen_socket,
                   handler, on_server_closed, on_client_closed>>

\* A receive thread was started for an accepted connection.
ListenerStart(t) ==
    /\ t \in DOMAIN listeners
    /\ ListenStart(t)
    /\ UNCHANGED closeVars

\* Steps of the connections that leave the closing state alone.
Connection(A) ==
    /\ A
    /\ UNCHANGED closeVars
(***************************************************************************)
(*                          WORKER LIFECYCLE                               *)
(* One worker identifier of one host: the host's worker table, the fields  *)
(* of the BaseStrategy object made for the identifier, the strategy        *)
(* threads __start__ has created, and the host thread that executes        *)
(* create_worker, start_worker, stop_worker and close_worker one at a      *)
(* time.  A behaviour makes one object for the identifier.                 *)
(***************************************************************************)
VARIABLES
    workers,        \* KxProcess.workers, the identifiers it holds
    created,        \* the BaseStrategy object has been made
    worker_status,  \* BaseStrategy.worker_status
    thread,         \* BaseStrategy.thread: 0 is None, k > 0 the k-th thread
    sthreads,       \* position of every strategy thread made so far
    op,             \* the lifecycle operation in progress:
                    \* [name, pc, timer, warned]
    components,     \* history: runs of the loops over the components'
                    \* __open__, __start__ and __stop__:
                    \* [opened, started, stopped]; BaseStrategy.__open__
                    \* has no caller, so no action counts in opened;
                    \* start_calls: the components whose __start__ the
                    \* latest loop of __start__ called, raiser: the one
                    \* that raised there ("none" when none did)
    stop_warnings,  \* history: 60 s warnings of the __stop__ last entered
    outcome,        \* how the last lifecycle operation ended
    issued,         \* history: the operations issued, in order
    trace           \* history: the values worker_status has taken

workerVars == <<workers, created, worker_status, thread, sthreads, op,
                components, stop_warnings, outcome, issued, trace>>

\* lifecycle operations issued in one behaviour
MaxOps == 6

\* self.components.values(): the components in the order of add_component
ComponentOrder == <<"first", "second">>

\* the loop of __start__ over the components: __start__ of each in turn,
\* the raise of StrategyComponentStartingError leaves the loop
RECURSIVE StartLoop(_, _)
StartLoop(order, raiser) ==
    IF order = <<>> THEN <<>>
    ELSE IF Head(order) = raiser THEN <<Head(order)>>
    ELSE <<Head(order)>> \o StartLoop(Tail(order), raiser)
\* 0.1 s polls of __stop__: 600 s in the code, scaled down
TimeoutPolls == 2
\* 0.1 s polls of __stop__ before the warning: 60 s in the code, scaled down
WarnPolls == 0

WorkerId == "w"
STOPPED == "STOPPED"
STARTING == "STARTING"
RUNNING == "RUNNING"
STOPPING == "STOPPING"

Idle == [name |-> "none", pc |-> "idle", timer |-> 0, warned |-> FALSE]

\* Fault model of ThreadIsNone: the handle is never looked at.
ThreadNotTested(th) == TRUE

\* self.thread is None
ThreadIsNone(th) == th = 0

\* if timer > 600
TimedOut(timer) == timer > TimeoutPolls

\* Fault model of ShouldWarn: the flag is not looked at.
WarnEveryPoll(timer, warned) == timer > WarnPolls

\* if timer > 60 and not _
ShouldWarn(timer, warned) == timer > WarnPolls /\ ~warned

\* worker_status is assigned: the history gets the value when it changes
Record(tr, old, new) == IF new # old THEN Append(tr, new) ELSE tr

\* Fault model of DelWorker: the record is left in the table.
KeepWorker(table, identifier) == table

\* del self.workers[identifier]
DelWorker(table, identifier) == table \ {identifier}

InitWorker ==
    /\ workers = {}
    /\ created = FALSE
    /\ worker_status = "none"
    /\ thread = 0
    /\ sthreads = <<>>
    /\ op = Idle
    /\ components = [opened |-> 0, started |-> 0, stopped |-> 0,
                     start_calls |-> <<>>, raiser |-> "none"]
    /\ stop_warnings = 0
    /\ outcome = "none"
    /\ issued = <<>>
    /\ trace = <<>>

Issue(name) ==
    /\ op.pc = "idle"
    /\ Len(issued) < MaxOps
    /\ issued' = Append(issued, name)

\* KxProcess.create_worker; BaseStrategy.__init__ sets thread = None and
\* worker_status = STOPPED
CreateWorker ==
    /\ Issue("create_worker")
    /\ IF WorkerId \in workers
       THEN /\ outcome' = "WorkerInitError"
            /\ UNCHANGED <<workers, created, worker_status, thread, trace>>
       ELSE /\ ~created
            /\ \/ /\ workers' = workers \cup {WorkerId}
                  /\ created' = TRUE
                  /\ worker_status' = STOPPED
                  /\ thread' = 0
                  /\ trace' = <<STOPPED>>
                  /\ outcome' = "ok"
               \/ /\ outcome' = "WorkerInitError"
                  /\ UNCHANGED <<workers, created, worker_status, thread, trace>>
    /\ UNCHANGED <<sthreads, op, components, stop_warnings>>

\* KxProcess.start_worker and BaseStrategy.__start__ up to the assignment of
\* STARTING: the identifier is looked up, the handle tested, the components
\* started, the Thread object made and stored.
StartWorker ==
    /\ Issue("start_worker")
    /\ IF WorkerId \notin workers
       THEN /\ outcome' = "WorkerNotFoundError"
            /\ UNCHANGED <<worker_status, thread, sthreads, op, trace,
                           components>>
       ELSE IF ~ThreadIsNone(thread)
       THEN /\ outcome' = "WorkerAlreadyStarted"
            /\ UNCHANGED <<worker_status, thread, sthreads, op, trace,
                           components>>
       ELSE \/ /\ \E raiser \in Range(ComponentOrder) :
                        components' =
                            [components EXCEPT
                                !.started = @ + 1,
                                !.start_calls = StartLoop(ComponentOrder, raiser),
                                !.raiser = raiser]
                  /\ outcome' = "StrategyComponentStartingError"
                  /\ UNCHANGED <<worker_status, thread, sthreads, op, trace>>
               \/ /\ components' =
                         [components EXCEPT
                             !.started = @ + 1,
                             !.start_calls = StartLoop(ComponentOrder, "none"),
                             !.raiser = "none"]
                  /\ sthreads' = Append(sthreads, "new")
                  /\ thread' = Len(sthreads) + 1
                  /\ worker_status' = STARTING
                  /\ trace' = Record(trace, worker_status, STARTING)
                  /\ op' = [Idle EXCEPT !.name = "start_worker",
                                        !.pc = "thread_start"]
                  /\ outcome' = "running"
    /\ UNCHANGED <<workers, created, stop_warnings>>

\* self.thread.start()
ThreadStart ==
    /\ op.pc = "thread_start"
    /\ sthreads' = [sthreads EXCEPT ![thread] = "loop"]
    /\ op' = [op EXCEPT !.pc = "set_running"]
    /\ UNCHANGED <<workers, created, worker_status, thread, outcome, issued,
                   trace, components, stop_warnings>>

\* self.worker_status = StrategyStatus.RUNNING, the end of __start__
SetRunning ==
    /\ op.pc = "set_running"
    /\ worker_status' = RUNNING
    /\ trace' = Record(trace, worker_status, RUNNING)
    /\ op' = Idle
    /\ outcome' = "ok"
    /\ UNCHANGED <<workers, created, thread, sthreads, issued, components,
                   stop_warnings>>

\* The start of __stop__, called by stop_worker (name = "stop_worker") or by
\* __close__ (name = "close_worker"): WorkerAlreadyStopped when the handle is
\* empty, which __close__ ignores; otherwise STOPPING is assigned and the
\* polling starts.
BeginStop(name) ==
    IF ThreadIsNone(thread)
    THEN /\ IF name = "close_worker"
            THEN /\ op' = [Idle EXCEPT !.name = name, !.pc = "close"]
                 /\ outcome' = "running"
            ELSE /\ op' = Idle
                 /\ outcome' = "WorkerAlreadyStopped"
         /\ UNCHANGED <<worker_status, trace, stop_warnings>>
    ELSE /\ worker_status' = STOPPING
         /\ trace' = Record(trace, worker_status, STOPPING)
         /\ op' = [Idle EXCEPT !.name = name, !.pc = "poll"]
         /\ stop_warnings' = 0
         /\ outcome' = "running"

\* KxProcess.stop_worker
StopWorker ==
    /\ Issue("stop_worker")
    /\ IF WorkerId \notin workers
       THEN /\ outcome' = "WorkerNotFoundError"
            /\ UNCHANGED <<worker_status, op, trace, stop_warnings>>
       ELSE BeginStop("stop_worker")
    /\ UNCHANGED <<workers, created, thread, sthreads, components>>

\* KxProcess.close_worker, which calls __close__, which calls __stop__
CloseWorker ==
    /\ Issue("close_worker")
    /\ IF WorkerId \notin workers
       THEN /\ outcome' = "WorkerNotFoundError"
            /\ UNCHANGED <<worker_status, op, trace, stop_warnings>>
       ELSE BeginStop("close_worker")
    /\ UNCHANGED <<workers, created, thread, sthreads, components>>

\* One turn of the loop of __stop__, and what follows the loop.  STOPPED
\* seen: the handle is emptied and the components are stopped, which may
\* fail.  Otherwise, past the timeout, the handle is emptied and
\* WorkerStoppingTimeout raised, which __close__ only logs; before it, the
\* thread sleeps 0.1 s and counts.
StopPoll ==
    /\ op.pc = "poll"
    /\ IF worker_status = STOPPED
       THEN /\ thread' = 0
            /\ components' = [components EXCEPT !.stopped = @ + 1]
            /\ \/ /\ outcome' = IF op.name = "close_worker" THEN "running" ELSE "ok"
                  /\ op' = IF op.name = "close_worker"
                              THEN [op EXCEPT !.pc = "close"] ELSE Idle
               \/ /\ outcome' = IF op.name = "close_worker"
                                   THEN "WorkerStoppingError"
                                   ELSE "StrategyComponentStoppingError"
                  /\ op' = Idle
            /\ UNCHANGED stop_warnings
       ELSE IF TimedOut(op.timer)
       THEN /\ thread' = 0
            /\ outcome' = IF op.name = "close_worker"
                             THEN "running" ELSE "WorkerStoppingTimeout"
            /\ op' = IF op.name = "close_worker"
                        THEN [op EXCEPT !.pc = "close"] ELSE Idle
            /\ UNCHANGED <<components, stop_warnings>>
       ELSE /\ IF ShouldWarn(op.timer, op.warned)
               THEN /\ stop_warnings' = stop_warnings + 1
                    /\ op' = [op EXCEPT !.timer = @ + 1, !.warned = TRUE]
               ELSE /\ op' = [op EXCEPT !.timer = @ + 1]
                    /\ UNCHANGED stop_warnings
            /\ UNCHANGED <<thread, outcome, components>>
    /\ UNCHANGED <<workers, created, worker_status, sthreads, issued, trace>>

\* The rest of __close__ and of close_worker: close_strategy and the
\* components' __close__, which may fail, then the record is deleted.
CloseFinish ==
    /\ op.pc = "close"
    /\ \/ /\ workers' = DelWorker(workers, WorkerId)
          /\ outcome' = "ok"
       \/ /\ outcome' \in {"StrategyClosingError", "StrategyComponentClosingError"}
          /\ UNCHANGED workers
    /\ op' = Idle
    /\ UNCHANGED <<created, worker_status, thread, sthreads, issued, trace,
                   components, stop_warnings>>

\* check_status, called by strategy thread k in its loop: the status is read
\* and, when it is STOPPING, stop_strategy runs.
CheckStatus(k) ==
    /\ sthreads[k] = "loop"
    /\ worker_status = STOPPING
    /\ sthreads' = [sthreads EXCEPT ![k] = "stop_strategy"]
    /\ UNCHANGED <<workers, created, worker_status, thread, op, outcome,
                   issued, trace, components, stop_warnings>>

\* self.worker_status = StrategyStatus.STOPPED
SetStopped(k) ==
    /\ sthreads[k] = "stop_strategy"
    /\ worker_status' = STOPPED
    /\ trace' = Record(trace, worker_status, STOPPED)
    /\ sthreads' = [sthreads EXCEPT ![k] = "exit"]
    /\ UNCHANGED <<workers, created, thread, op, outcome, issued, components,
                   stop_warnings>>

\* exit(0): the strategy thread ends
ThreadExit(k) ==
    /\ sthreads[k] = "exit"
    /\ sthreads' = [sthreads EXCEPT ![k] = "dead"]
    /\ UNCHANGED <<workers, created, worker_status, thread, op, outcome,
                   issued, trace, components, stop_warnings>>

Alive(k) == sthreads[k] \in {"loop", "stop_strategy", "exit"}

(***************************************************************************)
(*                     NATIVE ENDPOINTS OF THE HOST                        *)
(* The Core sends BLOCKING requests to the native endpoints of one host    *)
(* (KxProcess); the host's receive thread runs the endpoint's handler and, *)
(* for close_process, __close_process__.  Frames travel in order.          *)
(***************************************************************************)
VARIABLES
    toHost,      \* frames sent by the Core and not yet received by the host
    toCore,      \* RESPONSE frames sent by the host, not yet received
    hostRx,      \* the host's receive thread: [pc, endpoint, rid, complete]
    hostWorkers, \* number of workers in the host's table
    hostSocket,  \* the host's IpcClient socket: "open" or "closed"
    hostAlive,   \* FALSE once the host has killed its process
    coreCall,    \* the Core's blocking call: [pc, endpoint, rid, status]
    nextReq,     \* rids are fresh: the next one to mint
    responses    \* history: rid -> statuses of the RESPONSEs sent for it

hostVars == <<toHost, toCore, hostRx, hostWorkers, hostSocket, hostAlive,
              coreCall, nextReq, responses>>

\* blocking requests the Core sends in one behaviour
MaxRequests == 3
\* workers the host's table may hold
MaxWorkers == 2

ReqIds == 1..MaxRequests

NativeEndpoints == {"register_strategy", "add_component", "create_worker",
                    "start_worker", "stop_worker", "close_worker",
                    "close_process"}

\* The handler's except clause names Exception (create_worker only)
CatchesException(endpoint) == endpoint = "create_worker"

\* The handler reads fields of data: every one but close_process
ReadsFields(endpoint) == endpoint # "close_process"

HostIdle == [pc |-> "idle", endpoint |-> "none", rid |-> 0, complete |-> TRUE]
CoreIdle == [pc |-> "idle", endpoint |-> "none", rid |-> 0, status |-> "none"]

\* IpcClient.send_response: a RESPONSE frame with the rid is written
HostSendResponse(box, rid, status) == Append(box, [rid |-> rid, status |-> status])

\* What a native handler does with (rid, data).  A field data lacks raises
\* KeyError where the handler reads it; create_worker's except clause catches
\* it and calls e.serialize(), which a KeyError does not have.  Otherwise
\* the operation runs, what it raises is caught, and the handler returns a
\* dictionary whose status is success or error.
HandlerResult(endpoint, complete, ok) ==
    IF ReadsFields(endpoint) /\ ~complete
    THEN IF CatchesException(endpoint) THEN "AttributeError" ELSE "KeyError"
    ELSE IF ok THEN "success" ELSE "error"

\* The decorator Respond(endpoint): the dictionary the handler returns is
\* sent with send_response(endpoint, dictionary, rid); an exception of the
\* handler passes through.
Respond(box, rid, result) ==
    IF result \in {"success", "error"}
    THEN HostSendResponse(box, rid, result)
    ELSE box

InitHost ==
    /\ toHost = <<>>
    /\ toCore = <<>>
    /\ hostRx = HostIdle
    /\ hostWorkers = 0
    /\ hostSocket = "open"
    /\ hostAlive = TRUE
    /\ coreCall = CoreIdle
    /\ nextReq = 1
    /\ responses = [r \in ReqIds |-> <<>>]

\* IpcServer.send_blocking_request(host, endpoint, data) up to the wait;
\* complete says whether data holds every field the handler reads.
CoreRequest(endpoint, complete) ==
    /\ coreCall.pc \in {"idle", "returned"}
    /\ nextReq \in ReqIds
    /\ toHost' = Append(toHost, [endpoint |-> endpoint, rid |-> nextReq,
                                 complete |-> complete])
    /\ coreCall' = [pc |-> "waiting", endpoint |-> endpoint, rid |-> nextReq,
                    status |-> "none"]
    /\ nextReq' = nextReq + 1
    /\ UNCHANGED <<toCore, hostRx, hostWorkers, hostSocket, hostAlive, responses>>

\* The wait of send_blocking_request ends: the Core's receive thread has
\* read the RESPONSE with the rid and released the semaphore.
CoreReturn ==
    /\ coreCall.pc = "waiting"
    /\ toCore # <<>>
    /\ toCore' = Tail(toCore)
    /\ coreCall' = IF Head(toCore).rid = coreCall.rid
                      THEN [coreCall EXCEPT !.pc = "returned",
                                            !.status = Head(toCore).status]
                      ELSE coreCall
    /\ UNCHANGED <<toHost, hostRx, hostWorkers, hostSocket, hostAlive,
                   nextReq, responses>>

\* The host's receive thread reads a BLOCKING frame and handle_request calls
\* the endpoint's handler with (rid, data).
HostReceive ==
    /\ hostAlive /\ hostSocket = "open"
    /\ hostRx.pc = "idle"
    /\ toHost # <<>>
    /\ toHost' = Tail(toHost)
    /\ hostRx' = [pc |-> IF Head(toHost).endpoint = "close_process"
                            THEN "close_workers" ELSE "handler",
                  endpoint |-> Head(toHost).endpoint,
                  rid |-> Head(toHost).rid,
                  complete |-> Head(toHost).complete]
    /\ UNCHANGED <<toCore, hostWorkers, hostSocket, hostAlive, coreCall,
                   nextReq, responses>>

\* What the operation of an endpoint does to the worker table when it
\* succeeds.
AfterOperation(endpoint, n) ==
    IF endpoint = "create_worker" THEN Min(n + 1, MaxWorkers)
    ELSE IF endpoint = "close_worker" /\ n > 0 THEN n - 1
    ELSE n

\* The receive thread runs a handler decorated with Respond; an exception
\* that leaves it is logged by handle_request.
HostHandler(ok) ==
    /\ hostRx.pc = "handler"
    /\ LET result == HandlerResult(hostRx.endpoint, hostRx.complete, ok)
       IN /\ toCore' = Respond(toCore, hostRx.rid, result)
          /\ responses' = [responses EXCEPT ![hostRx.rid] =
                             IF toCore' # toCore THEN Append(@, result) ELSE @]
          /\ hostWorkers' = IF result = "success"
                               THEN AfterOperation(hostRx.endpoint, hostWorkers)
                               ELSE hostWorkers
    /\ hostRx' = HostIdle
    /\ UNCHANGED <<toHost, hostSocket, hostAlive, coreCall, nextReq>>

\* __close_process__, the loop: worker.close_worker() for every worker; an
\* exception is caught, wrapped by cast (of the exceptions module the host
\* imports) and logged, and the loop goes on.
CloseWorkers ==
    /\ hostRx.pc = "close_workers"
    /\ hostRx' = [hostRx EXCEPT !.pc = "respond"]
    /\ UNCHANGED <<toHost, toCore, hostWorkers, hostSocket, hostAlive,
                   coreCall, nextReq, responses>>

\* Fault model of CloseRespond: the response is left out.
CloseWithoutRespond ==
    /\ hostRx.pc = "respond"
    /\ hostRx' = [hostRx EXCEPT !.pc = "ipc_close"]
    /\ UNCHANGED <<toHost, toCore, hostWorkers, hostSocket, hostAlive,
                   coreCall, nextReq, responses>>

\* self.ipc.send_response("close_process", {"status": "success", ..}, rid)
CloseRespond ==
    /\ hostRx.pc = "respond"
    /\ toCore' = HostSendResponse(toCore, hostRx.rid, "success")
    /\ responses' = [responses EXCEPT ![hostRx.rid] = Append(@, "success")]
    /\ hostRx' = [hostRx EXCEPT !.pc = "ipc_close"]
    /\ UNCHANGED <<toHost, hostWorkers, hostSocket, hostAlive, coreCall, nextReq>>

\* self.ipc.close()
CloseTransport ==
    /\ hostRx.pc = "ipc_close"
    /\ hostSocket' = "closed"
    /\ hostRx' = [hostRx EXCEPT !.pc = "kill"]
    /\ UNCHANGED <<toHost, toCore, hostWorkers, hostAlive, coreCall,
                   nextReq, responses>>

\* os.kill(os.getpid(), signal.SIGKILL)
KillProcess ==
    /\ hostRx.pc = "kill"
    /\ hostAlive' = FALSE
    /\ hostRx' = [hostRx EXCEPT !.pc = "dead"]
    /\ UNCHANGED <<toHost, toCore, hostWorkers, hostSocket, coreCall,
                   nextReq, responses>>

(***************************************************************************)
(*                         THE CORE'S PUBLIC API                           *)
(* One user thread calls the methods of KuiX: it launches hosts and waits  *)
(* for them, registers strategies, and drives workers through blocking     *)
(* requests to the native endpoints of the hosts.  A host is a KxProcess   *)
(* with its tables strategies and workers.  The host table of the Core is  *)
(* the list kx_processes.                                                  *)
(***************************************************************************)
VARIABLES
    strategies,         \* KuiX.strategies: name -> import_path
    launched,           \* identifiers of the processes launched, not yet connected
    kx_strategies,      \* host -> names in KxProcess.strategies
    kx_workers,         \* host -> KxProcess.workers: identifier -> [strategy, status]
    blocking_requests,  \* IpcServer.blocking_requests of the Core: the rids
    request,            \* the BLOCKING frame on its way to a host
    response,           \* the RESPONSE frame on its way to the Core
    api                 \* the API call the user thread is in, or has left
                        \* (no: the number of calls made so far)

coreVars == <<strategies, launched, kx_strategies, kx_workers,
              blocking_requests, request, response, api>>

\* API calls in one behaviour
MaxApiCalls == 5
\* turns of the polling loop of create_process_and_wait before it gives up
PollLimit == 2

Hosts == {"h1", "h2"}
StrategyNames == {"A", "B"}
WorkerIds == {"w1"}

\* import_path of a module that holds the class, and of one that does not
GoodPath == "good.py"
BadPath == "bad.py"
Paths == {GoodPath, BadPath}

WorkerOps == {"start_worker", "stop_worker", "close_worker"}

SendOps == {"send", "send_and_block", "send_response"}

NoFrame == [endpoint |-> "none"]

ApiIdle == [no |-> 0, op |-> "none", pc |-> "idle", host |-> "none",
            name |-> "none", path |-> "none", worker |-> "none", i |-> 0,
            acc |-> 0, exc |-> "none", logged |-> {}]

\* the record of a call that begins
ApiCall(opname, h, name, path, w) ==
    [ApiIdle EXCEPT !.no = api.no + 1, !.op = opname, !.host = h, !.name = name,
                    !.path = path, !.worker = w]

\* the call is over: it returned (exc is "none") or raised exc
Done(call, exc) == [call EXCEPT !.pc = "done", !.exc = exc]

\* the user thread is not inside an API call
Free == api.pc \in {"idle", "done"} /\ api.no < MaxApiCalls

\* Exceptions.cast(e, msg, e_type): an error of the structured kinds keeps
\* its kind, any other exception becomes one of kind e_type.
StructuredKinds ==
    {"KxProcessStrategyImportError", "StrategyNotFoundError",
     "WorkerAlreadyExistsError", "WorkerNotFoundError", "WorkerInitError",
     "WorkerMethodCallError", "WorkerAlreadyStarted", "WorkerAlreadyStopped"}

cast(kind, e_type) == IF kind \in StructuredKinds THEN kind ELSE e_type

\* GenericException.serialize and Exceptions.deserialize: the error crosses
\* the connection as a dictionary with its type name and is rebuilt from it.
deserialize(ret) == ret.type

\* ret_data of a native handler: {"status": .., "return": ..}
ReturnData(kind) ==
    [status |-> IF kind = "none" THEN "success" ELSE "error", type |-> kind]

\* The decorator Respond(endpoint) of a native handler: the dictionary the
\* handler returns is sent with send_response(endpoint, ret_data, rid).
Responded(rid, ret) == [rid |-> rid, data |-> ret]

\* Fault model of Reraised: the error is dropped.
Swallowed(ex) == "none"

\* raise ex, caught and raised again by "raise e.add_ctx(..)"
Reraised(ex) == ex

\* Fault model of AlreadyRegistered: the test is left out.
NeverRegistered(name) == FALSE

\* if name in self.strategies
AlreadyRegistered(name) == name \in DOMAIN strategies

\* Fault model of KnownProcess: the test is left out.
AnyProcess(h) == TRUE

\* if kx_process_identifier not in self.kx_processes, negated
KnownProcess(h) == h \in Range(kx_processes)

\* Fault model of WorkerExists: the test is left out.
NoWorkerExists(table, w) == FALSE

\* if identifier in self.workers
WorkerExists(table, w) == w \in DOMAIN table

\* Fault model of LaunchFailed: the test is left out.
AlwaysFailed(id) == TRUE

\* create_process_and_wait, after the loop: if identifier not in self.kx_processes
LaunchFailed(id) == id \notin Range(kx_processes)

\* dict[key] = value
Put(table, key, value) ==
    [k \in DOMAIN table \cup {key} |-> IF k = key THEN value ELSE table[k]]

\* The exceptions the loop of register_strategy catches and logs
LoggedByRegister ==
    {"SocketServerSendError", "SocketServerClientNotFound", "KeyError",
     "KxProcessStrategyImportError"}

\* Parameters of the IpcServer methods after self
Parameters(method) ==
    IF method = "send_response"
    THEN <<"identifier", "endpoint", "data", "rid">>
    ELSE <<"identifier", "endpoint", "data">>

\* The IpcServer method KuiX.send, send_and_block and send_response call
Method(opname) ==
    CASE opname = "send" -> "send_fire_and_forget_request"
      [] opname = "send_and_block" -> "send_blocking_request"
      [] opname = "send_response" -> "send_response"

\* The arguments they pass to it
Passed(opname) ==
    IF opname = "send_response" THEN <<"endpoint", "data", "rid">>
                            ELSE <<"endpoint", "data">>

\* A Python call binds when every parameter gets an argument
Binds(method, args) == Len(args) = Len(Parameters(method))

InitCore ==
    /\ strategies = <<>>
    /\ launched = {}
    /\ kx_strategies = [h \in Hosts |-> {}]
    /\ kx_workers = [h \in Hosts |-> <<>>]
    /\ blocking_requests = {}
    /\ request = NoFrame
    /\ response = NoFrame
    /\ api = ApiIdle

\* IpcServer.send_blocking_request(identifier, endpoint, data) up to the
\* wait: the entry is inserted under a fresh rid and the frame sent.
SendBlockingRequest(call, endpoint) ==
    LET rid == <<call.no, call.i>> IN
    /\ blocking_requests' = blocking_requests \cup {rid}
    /\ request' = [endpoint |-> endpoint, to |-> call.host, name |-> call.name,
                   path |-> call.path, worker |-> call.worker, rid |-> rid]
    /\ api' = [call EXCEPT !.pc = "waiting"]

\* register_strategy, the head of "for process in self.kx_processes" at
\* index i, with the entries table of blocking_requests: the request for
\* the next process, or the end of the method.
Push(call, i, table) ==
    IF i <= Len(kx_processes)
    THEN /\ blocking_requests' = table \cup {<<call.no, i>>}
         /\ request' = [endpoint |-> "register_strategy",
                        to |-> kx_processes[i], name |-> call.name,
                        path |-> call.path, worker |-> "none",
                        rid |-> <<call.no, i>>]
         /\ api' = [call EXCEPT !.pc = "waiting", !.i = i,
                                !.host = kx_processes[i]]
    ELSE /\ api' = Done(call, "none")
         /\ blocking_requests' = table
         /\ UNCHANGED request

\* KuiX.create_process_and_wait(identifier), up to the polling loop:
\* create_process refuses an identifier of the table, and otherwise
\* launches the process.  (An identifier is launched once.)
CreateProcessAndWait(id) ==
    /\ Free
    /\ id \notin launched
    /\ IF id \in Range(kx_processes)
       THEN /\ api' = Done(ApiCall("create_process_and_wait", id, "none",
                                   "none", "none"), "ProcessAlreadyExists")
            /\ UNCHANGED launched
       ELSE /\ api' = [ApiCall("create_process_and_wait", id, "none", "none",
                               "none") EXCEPT !.pc = "polling"]
            /\ launched' = launched \cup {id}
    /\ UNCHANGED <<strategies, kx_strategies, kx_workers, blocking_requests,
                   request, response, kx_processes>>

\* while identifier not in self.kx_processes and acc < 30: sleep, acc += 0.1
WaitPoll ==
    /\ api.pc = "polling"
    /\ api' = IF api.host \notin Range(kx_processes) /\ api.acc < PollLimit
                 THEN [api EXCEPT !.acc = @ + 1]
                 ELSE [api EXCEPT !.pc = "check"]
    /\ UNCHANGED <<strategies, launched, kx_strategies, kx_workers,
                   blocking_requests, request, response, kx_processes>>

\* if identifier not in self.kx_processes: raise ProcessLaunchError
WaitEnd ==
    /\ api.pc = "check"
    /\ api' = Done(api, IF LaunchFailed(api.host) THEN "ProcessLaunchError"
                                                  ELSE "none")
    /\ UNCHANGED <<strategies, launched, kx_strategies, kx_workers,
                   blocking_requests, request, response, kx_processes>>

\* A launched process has built its KxProcess: the IpcClient connected with
\* the Core's key, and the hook start() registered appended the identifier.
HostConnects(id) ==
    /\ id \in launched
    /\ launched' = launched \ {id}
    /\ kx_processes' = Append(kx_processes, id)
    /\ UNCHANGED <<strategies, kx_strategies, kx_workers, blocking_requests,
                   request, response, api>>

\* KuiX.register_strategy(name, import_path)
CoreRegisterStrategy(name, path) ==
    /\ Free
    /\ IF AlreadyRegistered(name)
       THEN /\ api' = Done(ApiCall("register_strategy", "none", name, path,
                                   "none"), "StrategyAlreadyRegistered")
            /\ UNCHANGED <<strategies, blocking_requests, request>>
       ELSE /\ strategies' = Put(strategies, name, path)
            /\ Push(ApiCall("register_strategy", "none", name, path, "none"), 1,
                    blocking_requests)
    /\ UNCHANGED <<launched, kx_strategies, kx_workers, response, kx_processes>>

\* KuiX.create_worker(kx_process_identifier, strategy_name, worker_identifier)
CoreCreateWorker(h, s, w) ==
    /\ Free
    /\ IF ~KnownProcess(h)
       THEN /\ api' = Done(ApiCall("create_worker", h, s, "none", w),
                           "ProcessNotFound")
            /\ UNCHANGED <<blocking_requests, request>>
       ELSE IF s \notin DOMAIN strategies
       THEN /\ api' = Done(ApiCall("create_worker", h, s, "none", w),
                           "StrategyNotRegistered")
            /\ UNCHANGED <<blocking_requests, request>>
       ELSE SendBlockingRequest(ApiCall("create_worker", h, s, "none", w),
                                "create_worker")
    /\ UNCHANGED <<strategies, launched, kx_strategies, kx_workers, response,
                   kx_processes>>

\* KuiX.start_worker, stop_worker, close_worker(kx_process_identifier,
\* worker_identifier)
CoreWorkerCall(opname, h, w) ==
    /\ Free
    /\ IF ~KnownProcess(h)
       THEN /\ api' = Done(ApiCall(opname, h, "none", "none", w),
                           "ProcessNotFound")
            /\ UNCHANGED <<blocking_requests, request>>
       ELSE SendBlockingRequest(ApiCall(opname, h, "none", "none", w), opname)
    /\ UNCHANGED <<strategies, launched, kx_strategies, kx_workers, response,
                   kx_processes>>

\* KuiX.send, send_and_block, send_response(process_identifier, endpoint,
\* data[, rid]): the IpcServer method is called with the arguments after
\* process_identifier; the call that does not bind raises TypeError.
CoreSend(opname, h, endpoint) ==
    /\ Free
    /\ IF Binds(Method(opname), Passed(opname))
       THEN IF opname = "send_and_block"
            THEN SendBlockingRequest(ApiCall(opname, h, endpoint, "none", "none"),
                                     endpoint)
            ELSE /\ request' = [endpoint |-> endpoint, to |-> h,
                                name |-> "none", path |-> "none",
                                worker |-> "none", rid |-> <<api.no + 1, 0>>]
                 /\ api' = Done(ApiCall(opname, h, endpoint, "none", "none"), "none")
                 /\ UNCHANGED blocking_requests
       ELSE /\ api' = Done(ApiCall(opname, h, endpoint, "none", "none"), "TypeError")
            /\ UNCHANGED <<blocking_requests, request>>
    /\ UNCHANGED <<strategies, launched, kx_strategies, kx_workers, response,
                   kx_processes>>

\* KxProcess.register_strategy: the module is loaded from the path and the
\* class stored under the name.
KxRegisterStrategy(h, f) ==
    IF f.path = BadPath
    THEN [kind |-> "KxProcessStrategyImportError",
          strategies |-> kx_strategies[h], workers |-> kx_workers[h]]
    ELSE [kind |-> "none", strategies |-> kx_strategies[h] \cup {f.name},
          workers |-> kx_workers[h]]

\* KxProcess.create_worker: the strategy is looked up, then the identifier;
\* what is raised goes through cast.
KxCreateWorker(h, f) ==
    IF f.name \notin kx_strategies[h]
    THEN [kind |-> cast("StrategyNotFoundError", "WorkerInitError"),
          strategies |-> kx_strategies[h], workers |-> kx_workers[h]]
    ELSE IF WorkerExists(kx_workers[h], f.worker)
    THEN [kind |-> cast("WorkerAlreadyExistsError", "WorkerInitError"),
          strategies |-> kx_strategies[h], workers |-> kx_workers[h]]
    ELSE [kind |-> "none", strategies |-> kx_strategies[h],
          workers |-> Put(kx_workers[h], f.worker,
                          [strategy |-> f.name, status |-> STOPPED])]

\* KxProcess.start_worker, stop_worker, close_worker: the identifier is
\* looked up and the worker's method called; what is raised goes through
\* cast.
KxWorkerCall(h, f) ==
    LET table == kx_workers[h]
        w == f.worker
        keep(kind) == [kind |-> cast(kind, "WorkerMethodCallError"),
                       strategies |-> kx_strategies[h], workers |-> table]
        set(status) == [kind |-> "none", strategies |-> kx_strategies[h],
                        workers |-> [table EXCEPT ![w].status = status]]
    IN
    IF w \notin DOMAIN table THEN keep("WorkerNotFoundError")
    ELSE CASE f.endpoint = "start_worker" ->
                 IF table[w].status = RUNNING THEN keep("WorkerAlreadyStarted")
                                              ELSE set(RUNNING)
           [] f.endpoint = "stop_worker" ->
                 IF table[w].status = STOPPED THEN keep("WorkerAlreadyStopped")
                                              ELSE set(STOPPED)
           [] f.endpoint = "close_worker" ->
                 [kind |-> "none", strategies |-> kx_strategies[h],
                  workers |-> Without(table, w)]

\* The host's receive thread runs the native endpoint of the frame:
\* the handler calls the method of KxProcess, turns what it raises into
\* ret_data, and the response is sent with the rid of the request.
RemoteEndpoint ==
    /\ request # NoFrame
    /\ request.endpoint \in {"register_strategy", "create_worker"} \cup WorkerOps
    /\ LET h == request.to
           out == CASE request.endpoint = "register_strategy" ->
                          KxRegisterStrategy(h, request)
                    [] request.endpoint = "create_worker" ->
                          KxCreateWorker(h, request)
                    [] OTHER -> KxWorkerCall(h, request)
       IN /\ kx_strategies' = [kx_strategies EXCEPT ![h] = out.strategies]
          /\ kx_workers' = [kx_workers EXCEPT ![h] = out.workers]
          /\ response' = Responded(request.rid, ReturnData(out.kind))
    /\ request' = NoFrame
    /\ UNCHANGED <<strategies, launched, blocking_requests, api, kx_processes>>

\* The response arrives: send_blocking_request returns it, and the API
\* method raises the error it holds, which register_strategy catches and
\* logs before it goes on with the next process.
ApiResponse ==
    /\ api.pc = "waiting"
    /\ response # NoFrame
    /\ response.rid \in blocking_requests
    /\ response' = NoFrame
    /\ LET ex == IF response.data.status = "error"
                 THEN deserialize(response.data) ELSE "none"
           table == blocking_requests \ {response.rid}
       IN IF api.op = "register_strategy"
          THEN IF ex = "none" THEN Push(api, api.i + 1, table)
               ELSE IF ex \in LoggedByRegister
                    THEN Push([api EXCEPT !.logged = @ \cup {api.host}],
                              api.i + 1, table)
                    ELSE /\ api' = Done(api, ex)
                         /\ blocking_requests' = table
                         /\ UNCHANGED request
          ELSE /\ api' = Done(api, Reraised(ex))
               /\ blocking_requests' = table
               /\ UNCHANGED request
    /\ UNCHANGED <<strategies, launched, kx_strategies, kx_workers, kx_processes>>


(***************************************************************************)
(*                     ERRORS ACROSS THE CONNECTION                        *)
(* What a worker method raises inside a host, as it travels to the caller  *)
(* of the Core: caught and cast in the KxProcess method, serialized by the *)
(* native handler, sent as the response, deserialized by the Core, given   *)
(* the Core's note and raised.                                             *)
(***************************************************************************)
VARIABLES
    thrown,     \* what the worker method raised, with the operation it ran in
    before,     \* the structured error the host serialized
    err,        \* the error, or the dictionary that carries it, at this stage
    stage       \* how far the error has travelled

errVars == <<thrown, before, err, stage>>

\* Bounds of the error model
MaxNotes == 2
MaxText == 2

\* Messages and tracebacks
Texts == 1..MaxText

\* The operations of the Core that run a worker method in a host.
ErrorOps == {"create_worker", "start_worker", "stop_worker", "close_worker"}

\* Context notes: who appended the note, in which operation, and for notes
\* of the strategy layer their number.
StrategyNotes == {<<"strategy", n>> : n \in 1..MaxNotes}

\* f"KxProcess {self.identifier} _start_worker: worker '{identifier}' failed
\* to start." and its like in the other methods
HostNote(opname) == <<"KxProcess", opname>>

\* f"Error from KuiX core while starting worker '..' instanced on process
\* '..'" and its like in the other methods
CoreNote(opname) == <<"KuiX core", opname>>

\* Sequences of strategy notes, in ascending order, up to MaxNotes long.
NoteLists ==
    {<<>>} \cup {<<n>> : n \in StrategyNotes}
           \cup {<<<<"strategy", 1>>, <<"strategy", 2>>>>}

\* Classes of Exceptions.py that extend GenericException and are raised
\* inside a worker method.
WorkerErrorClasses ==
    {"StrategyComponentStartingError", "StrategyComponentStoppingError",
     "WorkerStoppingError"}

\* The classes Exceptions.deserialize finds in globals().
ExceptionClasses ==
    WorkerErrorClasses \cup
        {"GenericException", "WorkerInitError", "WorkerMethodCallError"}

\* An exception that is no GenericException
RawException(m) == [class |-> "ValueError", args |-> <<m>>]

IsGeneric(e) == e.class \in ExceptionClasses

\* traceback.format_exc() while the exception e is handled
FormatExc(e) == <<"Traceback", e.class, e.args[1]>>

\* GenericException.__init__(exception)
GenericException(class, exception) ==
    IF IsGeneric(exception)
    THEN [class |-> class, base_msg |-> exception.base_msg,
          traceback |-> exception.traceback, context |-> exception.context]
    ELSE [class |-> class, base_msg |-> exception.args[1],
          traceback |-> FormatExc(exception), context |-> <<>>]

\* Fault model of add_ctx: the note is put in front of the list.
add_ctx_first(e, context) == [e EXCEPT !.context = <<context>> \o @]

\* GenericException.add_ctx: self.context.append(context); return self
add_ctx(e, context) == [e EXCEPT !.context = Append(@, context)]

\* Exceptions.cast(e, msg, e_type): an exception that is a GenericException
\* stays what it is, any other is wrapped in e_type; msg is its next note.
CastError(e, msg, e_type) ==
    add_ctx(IF IsGeneric(e) THEN e ELSE GenericException(e_type, e), msg)

\* The class the KxProcess method casts to.
PhaseError(opname) ==
    IF opname = "create_worker" THEN "WorkerInitError"
                                ELSE "WorkerMethodCallError"

\* GenericException.serialize
Serialize(e) ==
    [traceback |-> e.traceback, context |-> e.context, type |-> e.class,
     base_msg |-> e.base_msg]

\* Fault model of Deserialize: the context of the new object is kept.
DeserializeNoContext(d) ==
    [[GenericException(d.type, [class |-> "Exception", args |-> <<0>>])
        EXCEPT !.base_msg = d.base_msg]
        EXCEPT !.traceback = d.traceback]

\* Exceptions.deserialize: an object of the class named by "type" is made
\* from Exception(""), and its three fields are set from the dictionary.
Deserialize(d) ==
    [[[GenericException(d.type, [class |-> "Exception", args |-> <<0>>])
        EXCEPT !.base_msg = d.base_msg]
        EXCEPT !.traceback = d.traceback]
        EXCEPT !.context = d.context]

NoError == [class |-> "none"]

InitError ==
    /\ thrown = [op |-> "none", e |-> NoError]
    /\ before = NoError
    /\ err = NoError
    /\ stage = "idle"

\* The worker method a KxProcess method calls raises: an exception of the
\* user's code, or a GenericException of the strategy layer.
WorkerRaises(opname, e) ==
    /\ stage = "idle"
    /\ thrown' = [op |-> opname, e |-> e]
    /\ err' = e
    /\ stage' = "raised"
    /\ UNCHANGED before

\* KxProcess.create_worker .. close_worker: except Exception as e: raise cast
HostCasts ==
    /\ stage = "raised"
    /\ err' = CastError(err, HostNote(thrown.op), PhaseError(thrown.op))
    /\ stage' = "cast"
    /\ UNCHANGED <<thrown, before>>

\* The native handler: except .. as e: ret_data = {"status": "error",
\* "return": e.serialize()}, which the decorator sends as the response.
HostAnswers ==
    /\ stage = "cast"
    /\ before' = err
    /\ err' = [status |-> "error", return |-> Serialize(err)]
    /\ stage' = "answered"
    /\ UNCHANGED thrown

\* The Core's method: if response["status"] == "error":
\* ex = deserialize(response["return"])
CoreDeserializes ==
    /\ stage = "answered"
    /\ err.status = "error"
    /\ err' = Deserialize(err.return)
    /\ stage' = "deserialized"
    /\ UNCHANGED <<thrown, before>>

\* raise ex; except (.., GenericException) as e: raise e.add_ctx(..)
CoreRaises ==
    /\ stage = "deserialized"
    /\ err' = add_ctx(err, CoreNote(thrown.op))
    /\ stage' = "core_raised"
    /\ UNCHANGED <<thrown, before>>

(***************************************************************************)
(*                        PER-WORKER ENDPOINTS                             *)
(* KxProcess.register_worker_endpoint and                                  *)
(* register_worker_blocking_endpoint with the tables they fill, the        *)
(* routing functions they install in the IpcClient, and handle_request of  *)
(* the host for a request that names a worker.                             *)
(***************************************************************************)
VARIABLES
    worker_endpoints,           \* name -> [present, cb]: the dictionary of
                                \* the name, if any, worker_id -> callback
    worker_blocking_endpoints,  \* the same for the blocking kind
    ipc_endpoints,              \* names whose __routing__ is in ipc.endpoints
    ipc_blocking_endpoints,     \* the same for ipc.blocking_endpoints
    registrations,              \* calls of the two register methods so far
    register_raised,            \* what the last register call raised
    routed                      \* the last request: [kind, name, worker_id,
                                \* invoked, logged]

routeVars == <<worker_endpoints, worker_blocking_endpoints, ipc_endpoints,
               ipc_blocking_endpoints, registrations, register_raised, routed>>

\* calls of the register methods a behaviour may hold
MaxRegister == 3
\* callbacks to tell apart
NCallbacks == 2

EndpointNames == {"n1", "n2"}
RoutedWorkers == {"w1", "w2"}
Callbacks == 1..NCallbacks
Kinds == {FIRE_AND_FORGET, BLOCKING}

\* no callback under the worker_id
NoCallback == 0

EmptyTable == [present |-> FALSE, cb |-> [w \in RoutedWorkers |-> NoCallback]]

NoRequest == [kind |-> "none", name |-> "none", worker_id |-> "none",
              invoked |-> {}, logged |-> {}]

InitRoute ==
    /\ worker_endpoints = [n \in EndpointNames |-> EmptyTable]
    /\ worker_blocking_endpoints = [n \in EndpointNames |-> EmptyTable]
    /\ ipc_endpoints = {}
    /\ ipc_blocking_endpoints = {}
    /\ registrations = 0
    /\ register_raised = "none"
    /\ routed = NoRequest

\* self.worker_endpoints[name] = {} / self.worker_blocking_endpoints[name] = {}
NewTable(tables, name) == [tables EXCEPT ![name].present = TRUE]

\* self.worker_endpoints[name][worker_id] = callback
SetCallback(tables, name, worker_id, callback) ==
    [tables EXCEPT ![name].cb[worker_id] = callback]

\* KxProcess.register_worker_endpoint
register_worker_endpoint(name, worker_id, callback) ==
    /\ registrations < MaxRegister
    /\ registrations' = registrations + 1
    /\ IF ~worker_endpoints[name].present
       THEN /\ ipc_endpoints' = ipc_endpoints \cup {name}
            /\ worker_endpoints' =
                  SetCallback(NewTable(worker_endpoints, name), name,
                              worker_id, callback)
       ELSE /\ worker_endpoints' =
                  SetCallback(worker_endpoints, name, worker_id, callback)
            /\ UNCHANGED ipc_endpoints
    /\ register_raised' = "none"
    /\ UNCHANGED <<worker_blocking_endpoints, ipc_blocking_endpoints, routed>>

\* self.worker_endpoints[name] in register_worker_blocking_endpoint: the
\* dictionary of the name in the table of the other kind, KeyError when the
\* name is not in it
OtherTableHasName(name) == worker_endpoints[name].present

\* KxProcess.register_worker_blocking_endpoint: for a new name the
\* dictionary is made, then the warning's test looks the name up in
\* worker_endpoints; the KeyError leaves the method before __routing__ is
\* installed and before the callback is stored.
register_worker_blocking_endpoint(name, worker_id, callback) ==
    /\ registrations < MaxRegister
    /\ registrations' = registrations + 1
    /\ IF ~worker_blocking_endpoints[name].present
       THEN IF OtherTableHasName(name)
            THEN /\ ipc_blocking_endpoints' = ipc_blocking_endpoints \cup {name}
                 /\ worker_blocking_endpoints' =
                       SetCallback(NewTable(worker_blocking_endpoints, name),
                                   name, worker_id, callback)
                 /\ register_raised' = "none"
            ELSE /\ worker_blocking_endpoints' =
                       NewTable(worker_blocking_endpoints, name)
                 /\ register_raised' = "KeyError"
                 /\ UNCHANGED ipc_blocking_endpoints
       ELSE /\ worker_blocking_endpoints' =
                  SetCallback(worker_blocking_endpoints, name, worker_id,
                              callback)
            /\ register_raised' = "none"
            /\ UNCHANGED ipc_blocking_endpoints
    /\ UNCHANGED <<worker_endpoints, ipc_endpoints, routed>>

\* __routing__: the callback under data["worker_id"] is called; a worker_id
\* without one is a KeyError, which is logged as an error.
Routing(tables, kind, name, worker_id) ==
    IF tables[name].cb[worker_id] # NoCallback
    THEN [kind |-> kind, name |-> name, worker_id |-> worker_id,
          invoked |-> {<<worker_id, tables[name].cb[worker_id]>>},
          logged |-> {}]
    ELSE [kind |-> kind, name |-> name, worker_id |-> worker_id,
          invoked |-> {}, logged |-> {"WorkerMethodCallError"}]

\* IpcClient.handle_request for a request of the Core to a worker endpoint:
\* an endpoint that is not in the table of the kind is logged as
\* UnknownEndpoint, otherwise the function installed for it is called.
WorkerRequest(kind, name, worker_id) ==
    /\ routed' =
          IF kind = FIRE_AND_FORGET
          THEN IF name \in ipc_endpoints
               THEN Routing(worker_endpoints, kind, name, worker_id)
               ELSE [kind |-> kind, name |-> name, worker_id |-> worker_id,
                     invoked |-> {}, logged |-> {"UnknownEndpoint"}]
          ELSE IF name \in ipc_blocking_endpoints
               THEN Routing(worker_blocking_endpoints, kind, name, worker_id)
               ELSE [kind |-> kind, name |-> name, worker_id |-> worker_id,
                     invoked |-> {}, logged |-> {"UnknownEndpoint"}]
    /\ UNCHANGED <<worker_endpoints, worker_blocking_endpoints, ipc_endpoints,
                   ipc_blocking_endpoints, registrations, register_raised>>

(***************************************************************************)
(*                          HOST START-UP                                  *)
(* The host process from its launch to the end of KxProcess.__init__, the  *)
(* server's acceptance of it, and the first blocking request the Core      *)
(* sends to it once create_process_and_wait has returned.                  *)
(***************************************************************************)
VARIABLES
    boot,             \* host -> how far KxProcess.__init__ has come
    host_table,       \* KuiX.kx_processes, as a set
    first_call,       \* host -> the Core's thread: waiting for the host,
                      \* then inside its first blocking request
    in_flight,        \* host -> the request is written and not yet read
    request_outcome   \* host -> what the host's receive thread did with it

readyVars == <<boot, host_table, first_call, in_flight, request_outcome>>

InitReady ==
    /\ boot = [h \in Hosts |-> "off"]
    /\ host_table = {}
    /\ first_call = [h \in Hosts |-> "none"]
    /\ in_flight = [h \in Hosts |-> FALSE]
    /\ request_outcome = [h \in Hosts |-> "none"]

\* KuiX.create_process_and_wait(h): the process is started and the Core
\* polls kx_processes.  In the process, KxProcess.__init__ calls
\* IpcClient.__init__, which calls connect: the socket connects and the
\* authentication payload is written.
LaunchAndWait(h) ==
    /\ boot[h] = "off"
    /\ boot' = [boot EXCEPT ![h] = "payload_sent"]
    /\ first_call' = [first_call EXCEPT ![h] = "waiting_host"]
    /\ UNCHANGED <<host_table, in_flight, request_outcome>>

\* The accept thread validates the key, answers valid, stores the
\* connection and triggers on_connection_accepted, whose callback of the
\* Core appends the identifier to kx_processes.
ServerAccepts(h) ==
    /\ boot[h] = "payload_sent"
    /\ h \notin host_table
    /\ host_table' = host_table \cup {h}
    /\ UNCHANGED <<boot, first_call, in_flight, request_outcome>>

\* connect reads the answer valid and triggers the client's
\* on_connection_accepted, which starts the thread of listen_for_connection.
ClientListens(h) ==
    /\ boot[h] = "payload_sent"
    /\ h \in host_table
    /\ boot' = [boot EXCEPT ![h] = "listening"]
    /\ UNCHANGED <<host_table, first_call, in_flight, request_outcome>>

\* IpcClient.__init__ after connect: the endpoint tables are made and
\* handle_request is registered on on_message_received.
RegisterHandler(h) ==
    /\ boot[h] = "listening"
    /\ boot' = [boot EXCEPT ![h] = "handler"]
    /\ UNCHANGED <<host_table, first_call, in_flight, request_outcome>>

\* KxProcess.__init__ after IpcClient(): the native endpoints are put in
\* ipc.endpoints and ipc.blocking_endpoints.
RegisterNative(h) ==
    /\ boot[h] = "handler"
    /\ boot' = [boot EXCEPT ![h] = "ready"]
    /\ UNCHANGED <<host_table, first_call, in_flight, request_outcome>>

\* The loop of create_process_and_wait finds the identifier in
\* kx_processes and the method returns.
WaitReturns(h) ==
    /\ first_call[h] = "waiting_host"
    /\ h \in host_table
    /\ first_call' = [first_call EXCEPT ![h] = "returned"]
    /\ UNCHANGED <<boot, host_table, in_flight, request_outcome>>

\* The Core sends a blocking request to a native endpoint of the host and
\* waits on the semaphore.
FirstRequest(h) ==
    /\ first_call[h] = "returned"
    /\ first_call' = [first_call EXCEPT ![h] = "waiting_response"]
    /\ in_flight' = [in_flight EXCEPT ![h] = TRUE]
    /\ UNCHANGED <<boot, host_table, request_outcome>>

\* flush_buffer triggers on_message_received: with no callback registered
\* nothing is called; handle_request logs UnknownEndpoint for an endpoint
\* that is not in blocking_endpoints and otherwise calls the endpoint, which
\* answers.
Dispatch(position) ==
    CASE position = "listening" -> "dropped"
      [] position = "handler" -> "unknown_endpoint"
      [] OTHER -> "answered"

\* The host's receive thread reads the frame of the request.
HostReads(h) ==
    /\ in_flight[h]
    /\ boot[h] \in {"listening", "handler", "ready"}
    /\ in_flight' = [in_flight EXCEPT ![h] = FALSE]
    /\ request_outcome' = [request_outcome EXCEPT ![h] = Dispatch(boot[h])]
    /\ first_call' = [first_call EXCEPT ![h] =
                         IF Dispatch(boot[h]) = "answered"
                         THEN "answered" ELSE @]
    /\ UNCHANGED <<boot, host_table>>

(***************************************************************************)
(*                     THE ACCEPT LOOP AND THE HANDSHAKE                   *)
(* SocketServer.accept_new_connections, one thread: accept() on the        *)
(* listening socket, then recv(1024) on the socket accept() returned, then *)
(* json.loads and the test of the key.  The listening socket has a timeout *)
(* of 0.2 s; the socket accept() returns has none (no default timeout is   *)
(* set), so recv waits until the client sends or closes.                   *)
(***************************************************************************)
VARIABLES
    peer_kind,      \* peer_kind[c]: what client c does after connecting
    backlog,        \* connections made and not yet returned by accept()
    accept_pc,      \* the accept thread: "accept", or "recv" on connection
    connection,     \* the socket accept() returned last (0: none)
    peer_open,      \* peer_open[c]: c has not closed its socket
    accepted,       \* the clients whose handshake was validated
    accept_errors   \* the clients whose handshake ended in the warning
                    \* SocketServerAcceptError

shakeVars == <<peer_kind, backlog, accept_pc, connection, peer_open,
               accepted, accept_errors>>

\* clients that connect in one behaviour
NPeers == 3

PeerIds == 1..NPeers

\* "keyed": sends the payload with the right key; "garbage": sends bytes
\* that are no JSON; "silent": sends nothing
PeerKinds == {"keyed", "garbage", "silent"}

InitAccept ==
    /\ peer_kind = [c \in PeerIds |-> "none"]
    /\ backlog = <<>>
    /\ accept_pc = "accept"
    /\ connection = 0
    /\ peer_open = [c \in PeerIds |-> FALSE]
    /\ accepted = {}
    /\ accept_errors = {}

\* A client opens a TCP connection to the listening socket (the clients
\* connect in the order of their numbers).
PeerConnects(c, kind) ==
    /\ peer_kind[c] = "none"
    /\ \A b \in PeerIds : b < c => peer_kind[b] # "none"
    /\ peer_kind' = [peer_kind EXCEPT ![c] = kind]
    /\ peer_open' = [peer_open EXCEPT ![c] = TRUE]
    /\ backlog' = Append(backlog, c)
    /\ UNCHANGED <<accept_pc, connection, accepted, accept_errors>>

\* A client that sent nothing closes its socket.
PeerCloses(c) ==
    /\ peer_kind[c] = "silent"
    /\ peer_open[c]
    /\ peer_open' = [peer_open EXCEPT ![c] = FALSE]
    /\ UNCHANGED <<peer_kind, backlog, accept_pc, connection, accepted,
                   accept_errors>>

\* connection, address = self.socket.accept()
AcceptReturns ==
    /\ accept_pc = "accept"
    /\ backlog # <<>>
    /\ connection' = Head(backlog)
    /\ backlog' = Tail(backlog)
    /\ accept_pc' = "recv"
    /\ UNCHANGED <<peer_kind, peer_open, accepted, accept_errors>>

\* connection.recv(1024) returns: the client has sent its payload, or it has
\* closed its socket (recv returns b'')
RecvReturns(c) == peer_kind[c] \in {"keyed", "garbage"} \/ ~peer_open[c]

\* The rest of one turn of the loop: json.loads of what recv returned and
\* the test of the key; what json.loads raises is logged as
\* SocketServerAcceptError and the loop goes on.
Handshake ==
    /\ accept_pc = "recv"
    /\ RecvReturns(connection)
    /\ IF peer_kind[connection] = "keyed"
       THEN /\ accepted' = accepted \cup {connection}
            /\ UNCHANGED accept_errors
       ELSE /\ accept_errors' = accept_errors \cup {connection}
            /\ UNCHANGED accepted
    /\ accept_pc' = "accept"
    /\ UNCHANGED <<peer_kind, backlog, connection, peer_open>>
(***************************************************************************)
(*                          SPECIFICATIONS                                 *)
(* One specification per part of the program; the variables of the other   *)
(* parts keep their initial values.                                        *)
(***************************************************************************)
vars == <<frameVars, ipcVars, connVars, workerVars, hostVars, coreVars,
         writeVars, closeVars, errVars, cfgVars, routeVars, readyVars, garbageVars, shakeVars>>

Init ==
    /\ InitFrame /\ InitIpc /\ InitConn /\ InitWorker /\ InitHost /\ InitCore
    /\ InitWrite /\ InitClose /\ InitError /\ InitConfig /\ InitRoute
    /\ InitReady /\ InitGarbage /\ InitAccept

notFrame == <<ipcVars, connVars, workerVars, hostVars, coreVars,
              writeVars, closeVars, errVars, cfgVars, routeVars, readyVars, garbageVars, shakeVars>>
notIpc == <<frameVars, connVars, workerVars, hostVars, coreVars,
              writeVars, closeVars, errVars, cfgVars, routeVars, readyVars, garbageVars, shakeVars>>
notConn == <<frameVars, ipcVars, workerVars, hostVars, coreVars,
              writeVars, closeVars, errVars, cfgVars, routeVars, readyVars, garbageVars, shakeVars>>
notWorker == <<frameVars, ipcVars, connVars, hostVars, coreVars,
              writeVars, closeVars, errVars, cfgVars, routeVars, readyVars, garbageVars, shakeVars>>
notHost == <<frameVars, ipcVars, connVars, workerVars, coreVars,
              writeVars, closeVars, errVars, cfgVars, routeVars, readyVars, garbageVars, shakeVars>>
\* the API specification shares the list kx_processes with the connections
notCore == <<frameVars, ipcVars, workerVars, hostVars, cl, reply, srvSock,
             connections, listeners, unread, received, ipc_server_closed,
             raised, writeVars, closeVars, errVars, cfgVars, routeVars, readyVars, garbageVars, shakeVars>>

NextFrame ==
    \/ (\E m \in Msgs : SendData(m)) /\ UNCHANGED notFrame
    \/ SendKeepAlive /\ UNCHANGED notFrame
    \/ (\E n \in 1..Len(wire) : RecvChunk(n)) /\ UNCHANGED notFrame

SpecFrame == Init /\ [][NextFrame]_vars

\* the writers share the socket and the call log with the frame transport
notWrite == <<ipcVars, connVars, workerVars, hostVars, coreVars, closeVars,
              errVars, cfgVars, routeVars, readyVars, garbageVars, shakeVars>>

NextWrite ==
    \/ (\E t \in Writers, m \in Msgs : SendAllBegin(t, m)) /\ UNCHANGED notWrite
    \/ (\E t \in Writers, n \in 1..Len(EncodeFrame(1)) : SendAllWrite(t, n))
          /\ UNCHANGED notWrite
    \/ KeepAliveWrite /\ UNCHANGED notWrite

SpecWrite == Init /\ [][NextWrite]_vars

NextIpc ==
    \/ (\E p \in Peers, t \in Threads, e \in RequestNames, d \in Data :
          CallBegin(p, t, e, d)) /\ UNCHANGED notIpc
    \/ (\E p \in Peers, t \in Callers : CallReturn(p, t)) /\ UNCHANGED notIpc
    \/ (\E p \in Peers : RecvFrame(p)) /\ UNCHANGED notIpc
    \/ (\E p \in Peers : RetryResponse(p)) /\ UNCHANGED notIpc
    \/ (\E p \in Peers : PollDone(p)) /\ UNCHANGED notIpc

SpecIpc == Init /\ [][NextIpc]_vars

\* A pool of threads of the Core calls blocking endpoints of the host and
\* sends one-way requests, and the threads run between the statements of
\* send_blocking_request.  The threads of the pool are alike: a call is made
\* by the first thread that has none.
NextIpcPool ==
    \/ (\E e \in {"echo", "twice", "nope"}, d \in Payloads :
          CallInsert("core", FreeThread("core", Pool), e, d)) /\ UNCHANGED notIpc
    \/ (\E t \in Pool : CallSend("core", t)) /\ UNCHANGED notIpc
    \/ (\E t \in Pool : CallReturn("core", t)) /\ UNCHANGED notIpc
    \/ (\E e \in OneWayNames : SendOneWay("core", e, 1)) /\ UNCHANGED notIpc
    \/ (\E p \in Peers : RecvFrame(p)) /\ UNCHANGED notIpc
    \/ (\E p \in Peers : RetryResponse(p)) /\ UNCHANGED notIpc

SpecIpcPool == Init /\ [][NextIpcPool]_vars

\* The pool of threads calls a blocking endpoint of the host that answers
\* two times, among calls that are answered once.
NextIpcTwo ==
    \/ (\E e \in {"echo", "amend"}, d \in Payloads :
          CallInsert("core", FreeThread("core", Pool), e, d)) /\ UNCHANGED notIpc
    \/ (\E t \in Pool : CallSend("core", t)) /\ UNCHANGED notIpc
    \/ (\E t \in Pool : CallReturn("core", t)) /\ UNCHANGED notIpc
    \/ (\E p \in Peers : RecvFrame(p)) /\ UNCHANGED notIpc
    \/ (\E p \in Peers : RetryResponse(p)) /\ UNCHANGED notIpc

SpecIpcTwo == Init /\ [][NextIpcTwo]_vars

\* The pool of threads again, on a connection that can fail under send_data.
NextIpcFail ==
    \/ (\E e \in {"echo", "twice"}, d \in Payloads :
          CallInsert("core", FreeThread("core", Pool), e, d)) /\ UNCHANGED notIpc
    \/ (\E t \in Pool : CallSend("core", t)) /\ UNCHANGED notIpc
    \/ (\E t \in Pool : CallSendFails("core", t)) /\ UNCHANGED notIpc
    \/ (\E t \in Pool : CallReturn("core", t)) /\ UNCHANGED notIpc
    \/ (\E p \in Peers : RecvFrame(p)) /\ UNCHANGED notIpc
    \/ (\E p \in Peers : RetryResponse(p)) /\ UNCHANGED notIpc

SpecIpcFail == Init /\ [][NextIpcFail]_vars

\* The Core sends the host requests whose handler raises and frames that
\* are no requests, among requests that are served.
NextIpcErr ==
    \/ (\E e \in {"echo", "boom"}, d \in Data :
          CallInsert("core", FreeThread("core", Pool), e, d)) /\ UNCHANGED notIpc
    \/ (\E t \in Pool : CallSend("core", t)) /\ UNCHANGED notIpc
    \/ (\E t \in Pool : CallReturn("core", t)) /\ UNCHANGED notIpc
    \/ (\E e \in OneWayEndpoints \cup Raising : SendOneWay("core", e, 1))
          /\ UNCHANGED notIpc
    \/ (\E f \in RawFrames : SendRaw("core", f)) /\ UNCHANGED notIpc
    \/ (\E p \in Peers : RecvFrame(p)) /\ UNCHANGED notIpc
    \/ (\E p \in Peers : RecvFrameCallbackRaises(p)) /\ UNCHANGED notIpc

SpecIpcErr == Init /\ [][NextIpcErr]_vars

NextConn ==
    \/ (\E id \in Ids : CreateProcess(id)) /\ UNCHANGED notConn
    \/ (\E c \in Clients, id \in Ids, key \in Keys : ClientConnect(c, id, key))
          /\ UNCHANGED notConn
    \/ (\E c \in Clients : Accept(c)) /\ UNCHANGED notConn
    \/ (\E t \in DOMAIN listeners : ListenStart(t)) /\ UNCHANGED notConn
    \/ (\E c \in Clients : ClientSend(c)) /\ UNCHANGED notConn
    \/ (\E t \in DOMAIN listeners : ListenRecv(t)) /\ UNCHANGED notConn
    \/ (\E c \in Clients : ClientClose(c)) /\ UNCHANGED notConn
    \/ (\E t \in DOMAIN listeners : ListenTeardown(t)) /\ UNCHANGED notConn
    \/ ServerClose /\ UNCHANGED notConn
    \/ (\E id \in Ids : CoreCall(id)) /\ UNCHANGED notConn

SpecConn == Init /\ [][NextConn]_vars

\* The hosts that connect have identifiers of their own.
SlotId(c) == IF c = 1 THEN "p1" ELSE "p2"

notClose == <<frameVars, ipcVars, workerVars, hostVars, coreVars, writeVars,
              errVars, cfgVars, routeVars, readyVars, garbageVars, shakeVars>>

NextClose ==
    \/ (\E c \in Clients : Connection(ClientConnect(c, SlotId(c), auth_key)))
          /\ UNCHANGED notClose
    \/ (\E c \in Clients : Connection(Accept(c))) /\ UNCHANGED notClose
    \/ (\E t \in Clients : ListenerStart(t)) /\ UNCHANGED notClose
    \/ (\E c \in Clients : Connection(ClientSend(c))) /\ UNCHANGED notClose
    \/ (\E t \in Clients, k \in HandlerKinds : ListenDispatch(t, k))
          /\ UNCHANGED notClose
    \/ (\E t \in Clients : HandlerReturn(t)) /\ UNCHANGED notClose
    \/ (\E t \in Clients, b \in BOOLEAN : ListenExit(t, b)) /\ UNCHANGED notClose
    \/ ServerCloseCall /\ UNCHANGED notClose
    \/ (\E c \in Clients : ClientCloseCall(c)) /\ UNCHANGED notClose
    \/ AcceptStop /\ UNCHANGED notClose

\* Every thread that can take a step takes it: the accept thread, each
\* receive thread, and a handler that returns.
FairClose ==
    /\ WF_vars(AcceptStop /\ UNCHANGED notClose)
    /\ \A t \in Clients :
          /\ WF_vars(ListenerStart(t) /\ UNCHANGED notClose)
          /\ WF_vars(HandlerReturn(t) /\ UNCHANGED notClose)
          /\ WF_vars((\E b \in BOOLEAN : ListenExit(t, b)) /\ UNCHANGED notClose)

SpecClose == Init /\ [][NextClose]_vars /\ FairClose

NextWorker ==
    \/ CreateWorker /\ UNCHANGED notWorker
    \/ StartWorker /\ UNCHANGED notWorker
    \/ ThreadStart /\ UNCHANGED notWorker
    \/ SetRunning /\ UNCHANGED notWorker
    \/ StopWorker /\ UNCHANGED notWorker
    \/ CloseWorker /\ UNCHANGED notWorker
    \/ StopPoll /\ UNCHANGED notWorker
    \/ CloseFinish /\ UNCHANGED notWorker
    \/ (\E k \in DOMAIN sthreads : CheckStatus(k)) /\ UNCHANGED notWorker
    \/ (\E k \in DOMAIN sthreads : SetStopped(k)) /\ UNCHANGED notWorker
    \/ (\E k \in DOMAIN sthreads : ThreadExit(k)) /\ UNCHANGED notWorker

SpecWorker == Init /\ [][NextWorker]_vars

\* The host thread inside a lifecycle method goes on: time.sleep(0.1)
\* returns and the statements after it are executed.  Nothing is assumed of
\* the strategy threads, which call check_status when the user's code does.
FairWorker ==
    /\ WF_vars(ThreadStart /\ UNCHANGED notWorker)
    /\ WF_vars(SetRunning /\ UNCHANGED notWorker)
    /\ WF_vars(StopPoll /\ UNCHANGED notWorker)
    /\ WF_vars(CloseFinish /\ UNCHANGED notWorker)

SpecWorkerFair == Init /\ [][NextWorker]_vars /\ FairWorker

NextHost ==
    \/ (\E e \in NativeEndpoints, complete \in BOOLEAN : CoreRequest(e, complete))
          /\ UNCHANGED notHost
    \/ CoreReturn /\ UNCHANGED notHost
    \/ HostReceive /\ UNCHANGED notHost
    \/ (\E ok \in BOOLEAN : HostHandler(ok)) /\ UNCHANGED notHost
    \/ CloseWorkers /\ UNCHANGED notHost
    \/ CloseRespond /\ UNCHANGED notHost
    \/ CloseTransport /\ UNCHANGED notHost
    \/ KillProcess /\ UNCHANGED notHost

SpecHost == Init /\ [][NextHost]_vars

NextCore ==
    \/ (\E id \in Hosts : CreateProcessAndWait(id)) /\ UNCHANGED notCore
    \/ WaitPoll /\ UNCHANGED notCore
    \/ WaitEnd /\ UNCHANGED notCore
    \/ (\E id \in Hosts : HostConnects(id)) /\ UNCHANGED notCore
    \/ (\E name \in StrategyNames, path \in Paths :
          CoreRegisterStrategy(name, path)) /\ UNCHANGED notCore
    \/ (\E h \in Hosts, s \in StrategyNames, w \in WorkerIds :
          CoreCreateWorker(h, s, w)) /\ UNCHANGED notCore
    \/ (\E o \in WorkerOps, h \in Hosts, w \in WorkerIds :
          CoreWorkerCall(o, h, w)) /\ UNCHANGED notCore
    \/ (\E o \in SendOps, h \in Hosts : CoreSend(o, h, "echo"))
          /\ UNCHANGED notCore
    \/ RemoteEndpoint /\ UNCHANGED notCore
    \/ ApiResponse /\ UNCHANGED notCore

SpecCore == Init /\ [][NextCore]_vars

notError == <<frameVars, ipcVars, connVars, workerVars, hostVars, coreVars,
              writeVars, closeVars, cfgVars, routeVars, readyVars, garbageVars, shakeVars>>

\* What the worker method raises: an exception of the user's code with a
\* message, or an error of the strategy layer with its message, traceback
\* and notes.
Throwable ==
    {RawException(m) : m \in Texts} \cup
    [class : WorkerErrorClasses, base_msg : Texts, traceback : Texts,
     context : NoteLists]

NextError ==
    \/ (\E o \in ErrorOps, e \in Throwable : WorkerRaises(o, e))
          /\ UNCHANGED notError
    \/ HostCasts /\ UNCHANGED notError
    \/ HostAnswers /\ UNCHANGED notError
    \/ CoreDeserializes /\ UNCHANGED notError
    \/ CoreRaises /\ UNCHANGED notError

SpecError == Init /\ [][NextError]_vars


(***************************************************************************)
(* The Core is configured and started, hosts are launched, clients present *)
(* keys and the accept thread answers them.                                *)
(***************************************************************************)
notConfig == <<frameVars, ipcVars, connVars, workerVars, hostVars, coreVars,
               writeVars, closeVars, errVars, routeVars, readyVars, garbageVars, shakeVars>>

NextConfig ==
    \/ (\E key \in AuthKeys, bind_ok \in BOOLEAN : configure(key, bind_ok))
          /\ UNCHANGED notConfig
    \/ start /\ UNCHANGED notConfig
    \/ (\E c \in Clients : LaunchProcess(c)) /\ UNCHANGED notConfig
    \/ (\E c \in Clients, key \in AuthKeys : PresentKey(c, key))
          /\ UNCHANGED notConfig
    \/ (\E c \in Clients : Authenticate(c)) /\ UNCHANGED notConfig

SpecConfig == Init /\ [][NextConfig]_vars

(***************************************************************************)
(* Worker endpoints are registered on a host and the Core sends requests   *)
(* that name a worker.                                                     *)
(***************************************************************************)
notRoute == <<frameVars, ipcVars, connVars, workerVars, hostVars, coreVars,
              writeVars, closeVars, errVars, cfgVars, readyVars, garbageVars, shakeVars>>

NextRoute ==
    \/ (\E name \in EndpointNames, w \in RoutedWorkers, cb \in Callbacks :
          register_worker_endpoint(name, w, cb)) /\ UNCHANGED notRoute
    \/ (\E name \in EndpointNames, w \in RoutedWorkers, cb \in Callbacks :
          register_worker_blocking_endpoint(name, w, cb)) /\ UNCHANGED notRoute
    \/ (\E kind \in Kinds, name \in EndpointNames, w \in RoutedWorkers :
          WorkerRequest(kind, name, w)) /\ UNCHANGED notRoute

SpecRoute == Init /\ [][NextRoute]_vars

(***************************************************************************)
(* Hosts are launched with create_process_and_wait and the Core sends each *)
(* a blocking request as soon as the call has returned.                    *)
(***************************************************************************)
notReady == <<frameVars, ipcVars, connVars, workerVars, hostVars, coreVars,
              writeVars, closeVars, errVars, cfgVars, routeVars, garbageVars, shakeVars>>

NextReady ==
    \/ (\E h \in Hosts : LaunchAndWait(h)) /\ UNCHANGED notReady
    \/ (\E h \in Hosts : ServerAccepts(h)) /\ UNCHANGED notReady
    \/ (\E h \in Hosts : ClientListens(h)) /\ UNCHANGED notReady
    \/ (\E h \in Hosts : RegisterHandler(h)) /\ UNCHANGED notReady
    \/ (\E h \in Hosts : RegisterNative(h)) /\ UNCHANGED notReady
    \/ (\E h \in Hosts : WaitReturns(h)) /\ UNCHANGED notReady
    \/ (\E h \in Hosts : FirstRequest(h)) /\ UNCHANGED notReady
    \/ (\E h \in Hosts : HostReads(h)) /\ UNCHANGED notReady

SpecReady == Init /\ [][NextReady]_vars

(***************************************************************************)
(* Frames of send_data and frames that are no JSON document on one         *)
(* connection, with no keepalive traffic.                                  *)
(***************************************************************************)
notFrameBad == <<ipcVars, connVars, workerVars, hostVars, coreVars,
                 writeVars, closeVars, errVars, cfgVars, routeVars, readyVars, shakeVars>>

NextFrameBad ==
    \/ (\E m \in Msgs : SendData(m)) /\ UNCHANGED <<notFrameBad, garbage>>
    \/ SendBadFrame /\ UNCHANGED notFrameBad
    \/ (\E n \in 1..Len(wire) : RecvChunk(n))
          /\ UNCHANGED <<notFrameBad, garbage>>

SpecFrameBad == Init /\ [][NextFrameBad]_vars

notAccept == <<frameVars, ipcVars, connVars, workerVars, hostVars, coreVars,
               writeVars, closeVars, errVars, cfgVars, routeVars, readyVars,
               garbageVars>>

NextAccept ==
    \/ (\E c \in PeerIds, kind \in PeerKinds : PeerConnects(c, kind))
          /\ UNCHANGED notAccept
    \/ (\E c \in PeerIds : PeerCloses(c)) /\ UNCHANGED notAccept
    \/ AcceptReturns /\ UNCHANGED notAccept
    \/ Handshake /\ UNCHANGED notAccept

\* The accept thread runs: accept() returns when a connection is waiting,
\* and the turn of the loop goes on when recv has returned.  Nothing makes
\* a client send or close.
FairAccept ==
    /\ WF_vars(AcceptReturns /\ UNCHANGED notAccept)
    /\ WF_vars(Handshake /\ UNCHANGED notAccept)

SpecAccept == Init /\ [][NextAccept]_vars /\ FairAccept
(***************************************************************************)
(* C3: every frame written by send_data is delivered to                    *)
(* on_message_received exactly once and in send order, however the byte    *)
(* stream is split into reads: what has been delivered is always a prefix  *)
(* of what was sent, and once every byte has been read it is all of it.    *)
(***************************************************************************)
C3_FramesDeliveredInOrder ==
    /\ IsPrefix(delivered, sent)
    /\ (wire = <<>> => delivered = sent)

(***************************************************************************)
(* C1: a blocking call whose handler sent one RESPONSE with its rid        *)
(* returned exactly the data of that RESPONSE, and once the call has       *)
(* returned the caller's pending-request table has no entry for the rid.   *)
(***************************************************************************)
C1_BlockingCallReturnsResponse ==
    \A r \in DOMAIN returned :
        /\ Len(respSent[r]) = 1 => returned[r] = respSent[r][1]
        /\ \A p \in Peers : r \notin DOMAIN pending[p]

\* A call has returned the data its handler answered with, not the empty
\* slot the entry was created with.
C1_Witness ==
    \E r \in DOMAIN returned :
        /\ Len(respSent[r]) = 1
        /\ returned[r] = respSent[r][1]
        /\ returned[r] \in Data

(***************************************************************************)
(* C2: while a blocking endpoint handler of a peer has not returned, the   *)
(* peer's receive loop still takes the next frame of the connection; in    *)
(* particular the RESPONSE to a blocking request the handler itself issued *)
(* is received, so that the handler's call can return.                     *)
(***************************************************************************)
C2_ReceiveWhileHandlerRuns ==
    \A p \in Peers :
        (rx[p].pc \in {"relay", "poll"} /\ inbox[p] # <<>>)
            => ENABLED RecvFrame(p)

(***************************************************************************)
(* C4: when create_worker, start_worker, stop_worker and close_worker are  *)
(* issued for a fresh identifier in this order (any of them left out, any  *)
(* of them failing), the values worker_status takes form a prefix of       *)
(* STOPPED, STARTING, RUNNING, STOPPING, STOPPED, and once close_worker     *)
(* has succeeded the host's worker table has no record of the identifier.  *)
(***************************************************************************)
LifecycleScript ==
    <<"create_worker", "start_worker", "stop_worker", "close_worker">>

LifecycleTrace == <<STOPPED, STARTING, RUNNING, STOPPING, STOPPED>>

ScriptPos(name) == CHOOSE i \in DOMAIN LifecycleScript : LifecycleScript[i] = name

InLifecycleOrder ==
    \A i, j \in DOMAIN issued :
        i < j => ScriptPos(issued[i]) < ScriptPos(issued[j])

CloseSucceeded ==
    /\ issued # <<>>
    /\ issued[Len(issued)] = "close_worker"
    /\ op.pc = "idle"
    /\ outcome = "ok"

WorkerAtRest ==
    /\ created
    /\ op.pc = "idle"
    /\ \A k \in DOMAIN sthreads : sthreads[k] \in {"loop", "dead"}

C5_StatusMatchesThread ==
    WorkerAtRest =>
        /\ worker_status = STOPPED =>
              /\ thread = 0
              /\ \A k \in DOMAIN sthreads : ~Alive(k)
        /\ worker_status \in {STARTING, RUNNING, STOPPING} =>
              /\ thread # 0
              /\ Alive(thread)

(***************************************************************************)
(* C6: a client whose key is the server's receives "valid", and at that    *)
(* moment its connection is stored under its identifier, a receive thread  *)
(* is started for it and the identifier is appended to the Core's host     *)
(* table; a client whose key differs receives "invalid", its connection is *)
(* closed, no receive thread reads it, none of its frames is delivered,    *)
(* and an identifier is in the connection table or in the host table only  *)
(* by a client that presented the right key.                               *)
(***************************************************************************)
HandshakeState ==
    /\ \A c \in Clients :
          /\ reply[c] = "valid" =>
                /\ cl[c].key = auth_key
                /\ cl[c].id \in Range(kx_processes)
          /\ reply[c] = "invalid" =>
                /\ cl[c].key # auth_key
                /\ srvSock[c] = "closed"
          /\ (cl[c].st # "unused" /\ cl[c].key # auth_key) =>
                /\ reply[c] # "valid"
                /\ \A i \in DOMAIN connections : connections[i] # c
                /\ \A t \in DOMAIN listeners : listeners[t].conn # c
                /\ received[c] = 0
    /\ \A id \in Ids :
          (id \in DOMAIN connections \/ id \in Range(kx_processes)) =>
              \E c \in Clients : /\ cl[c].id = id
                                 /\ cl[c].key = auth_key
                                 /\ reply[c] = "valid"

HandshakeStep ==
    \A c \in Clients :
        (reply[c] = "none" /\ reply'[c] = "valid") =>
            /\ cl[c].id \in DOMAIN connections'
            /\ connections'[cl[c].id] = c
            /\ listeners' = Append(listeners,
                                   [id |-> cl[c].id, conn |-> 0, pc |-> "start"])
            /\ kx_processes' = Append(kx_processes, cl[c].id)

C6_Handshake == []HandshakeState /\ [][HandshakeStep]_vars

\* One client was accepted and a frame of it delivered; another was refused
\* and wrote a frame all the same.
C6_Witness ==
    \E c, d \in Clients :
        /\ reply[c] = "valid" /\ received[c] > 0
        /\ reply[d] = "invalid" /\ unread[d] > 0

(***************************************************************************)
(* C7: a second client that authenticates with an identifier a connected   *)
(* host holds is refused, so no two accepted connections that are both     *)
(* open carry the same identifier, and the Core's host table never holds   *)
(* an identifier twice.                                                    *)
(***************************************************************************)
C7_DuplicateIdentifierRefused ==
    /\ \A i, j \in DOMAIN kx_processes :
          i # j => kx_processes[i] # kx_processes[j]
    /\ \A c, d \in Clients :
          (c # d /\ cl[c].id = cl[d].id) =>
              ~(/\ reply[c] = "valid" /\ cl[c].st = "open"
                /\ reply[d] = "valid" /\ cl[d].st = "open")

(***************************************************************************)
(* C8: the Core's host table holds an identifier only while a connection   *)
(* of that identifier exists: once the connection is closed and its        *)
(* receive thread has torn it down, the identifier is not in the table.    *)
(***************************************************************************)
ConnectionExists(id) ==
    \E c \in Clients :
        /\ cl[c].id = id
        /\ reply[c] = "valid"
        /\ srvSock[c] = "open"

C8_RecordOnlyWhileConnected ==
    \A id \in Range(kx_processes) : ConnectionExists(id)

C10_ExactlyOneResponse ==
    \A r \in ReqIds :
        /\ Len(responses[r]) <= 1
        /\ \A i \in DOMAIN responses[r] : responses[r][i] \in {"success", "error"}
        /\ (/\ r < nextReq
            /\ \A i \in DOMAIN toHost : toHost[i].rid # r
            /\ hostRx.rid # r) => Len(responses[r]) = 1

(***************************************************************************)
(* C19: a BLOCKING request to a name that is not a blocking endpoint of    *)
(* the receiver is logged and dropped: no RESPONSE is sent for its rid,    *)
(* its entry is never released and the call never returns; a               *)
(* FIRE_AND_FORGET request to an unknown name is logged and dropped, no    *)
(* one-way handler runs for it; and the receive thread that dropped the    *)
(* frame is back in its loop.                                              *)
(***************************************************************************)
UnknownCall(p, t) ==
    /\ caller[p][t].pc \in {"inserted", "waiting"}
    /\ caller[p][t].endpoint \notin BlockingEndpoints

UnknownHead(p) ==
    /\ inbox[p] # <<>>
    /\ \/ /\ Head(inbox[p]).rtype = BLOCKING
          /\ Head(inbox[p]).endpoint \notin BlockingEndpoints
       \/ /\ Head(inbox[p]).rtype = FIRE_AND_FORGET
          /\ Head(inbox[p]).endpoint \notin OneWayEndpoints

UnknownNeverAnswered ==
    /\ \A p \in Peers, t \in Callers :
          UnknownCall(p, t) =>
              /\ respSent[caller[p][t].rid] = <<>>
              /\ caller[p][t].rid \notin DOMAIN returned
              /\ caller[p][t].rid \in DOMAIN pending[p]
              /\ pending[p][caller[p][t].rid].sem = 0
    /\ \A p \in Peers : handled[p] \subseteq OneWayEndpoints

UnknownDropped ==
    /\ \A p \in Peers, t \in Callers :
          UnknownCall(p, t) =>
              /\ caller'[p][t].rid = caller[p][t].rid
              /\ caller'[p][t].pc \in {"inserted", "waiting"}
    /\ \A p \in Peers :
          (RecvFrame(p) /\ UnknownHead(p)) =>
              /\ rx'[p] = RxIdle
              /\ inbox'[p] = Tail(inbox[p])
              /\ inbox'[Other(p)] = inbox[Other(p)]
              /\ Head(inbox[p]).rtype \in warnings'[p]
              /\ UNCHANGED <<pending, caller, respSent, returned, handled>>

C19_UnknownEndpointDropped == []UnknownNeverAnswered /\ [][UnknownDropped]_vars

\* The host has dropped a blocking and a one-way request to unknown names,
\* the blocking call still waits, and the host's receive thread has gone on
\* to answer a later call and to run a one-way handler.
C19_Witness ==
    \E t \in Pool :
        /\ caller["core"][t].pc = "waiting"
        /\ caller["core"][t].endpoint = "nope"
        /\ warnings["host"] = {BLOCKING, FIRE_AND_FORGET}
        /\ "note" \in handled["host"]
        /\ inbox["host"] = <<>>
        /\ \E r \in DOMAIN returned : r > caller["core"][t].rid

(***************************************************************************)
(* C20: when a thread's blocking call returns while other threads of the   *)
(* peer have calls outstanding, what it returns is the data of a RESPONSE  *)
(* sent with its own rid, which is the answer to the data it sent itself,  *)
(* in whatever order the requests were written and the responses arrived.  *)
(***************************************************************************)
ReturnsOwnResponse ==
    \A p \in Peers, t \in Callers :
        (caller[p][t].pc = "waiting" /\ caller'[p][t].pc = "idle") =>
            /\ caller[p][t].rid \in DOMAIN returned'
            /\ \E i \in DOMAIN respSent[caller[p][t].rid] :
                  returned'[caller[p][t].rid] = respSent[caller[p][t].rid][i]
            /\ returned'[caller[p][t].rid] = caller[p][t].data

C20_EachCallItsOwnResponse == [][ReturnsOwnResponse]_vars

\* Two threads of the Core had calls outstanding together; the call minted
\* later has returned first, with other data than the earlier call sent, and
\* the earlier call's response has now arrived too.
C20_Witness ==
    \E t \in Pool, r \in DOMAIN returned :
        /\ caller["core"][t].pc = "waiting"
        /\ caller["core"][t].rid < r
        /\ returned[r] # caller["core"][t].data
        /\ caller["core"][t].rid \in DOMAIN pending["core"]
        /\ pending["core"][caller["core"][t].rid].sem > 0

(***************************************************************************)
(* C11: every strategy of the Core's table whose module loads is           *)
(* registered in every host of the host table, also in a host that         *)
(* connected after the strategy was registered: whenever the user thread   *)
(* is outside the API, no connected host lacks such a strategy.            *)
(***************************************************************************)
C11_StrategiesPushedOnConnect ==
    api.pc \in {"idle", "done"} =>
        \A h \in Range(kx_processes), n \in DOMAIN strategies :
            strategies[n] = GoodPath => n \in kx_strategies[h]

(***************************************************************************)
(* C12: a call of register_strategy during which a host answered with      *)
(* status error ends by raising the error to its caller.                   *)
(***************************************************************************)
C12_PushErrorRaised ==
    (api.op = "register_strategy" /\ api.pc = "done" /\ api.logged # {})
        => api.exc # "none"

(***************************************************************************)
(* C13: register_strategy with a name that is in the Core's strategy       *)
(* table raises StrategyAlreadyRegistered, and changes neither the path    *)
(* stored under the name nor anything else of the Core or of the hosts,    *)
(* and sends no frame.                                                     *)
(***************************************************************************)
DuplicateRejected ==
    \A n \in StrategyNames, p \in Paths :
        (CoreRegisterStrategy(n, p) /\ n \in DOMAIN strategies) =>
            /\ api'.pc = "done"
            /\ api'.exc = "StrategyAlreadyRegistered"
            /\ UNCHANGED <<strategies, kx_processes, launched, kx_strategies,
                           kx_workers, blocking_requests, request, response>>

C13_DuplicateStrategyRejected == [][DuplicateRejected]_vars

\* A strategy registered with one path has been registered again with the
\* other, with a host connected, and the call was refused.
C13_Witness ==
    /\ api.op = "register_strategy"
    /\ api.pc = "done"
    /\ api.exc = "StrategyAlreadyRegistered"
    /\ kx_processes # <<>>
    /\ strategies[api.name] # api.path

(***************************************************************************)
(* C14: create_worker raises ProcessNotFound for a host that is not in the *)
(* host table, and otherwise StrategyNotRegistered for a strategy that is  *)
(* not in the Core's table, and then no frame is sent and no entry of      *)
(* blocking_requests made; when both tests pass, a create_worker request   *)
(* with the strategy and the worker goes to that host.                     *)
(***************************************************************************)
CreateWorkerChecked ==
    \A h \in Hosts, s \in StrategyNames, w \in WorkerIds :
        CoreCreateWorker(h, s, w) =>
            IF h \notin Range(kx_processes)
            THEN /\ api'.pc = "done"
                 /\ api'.exc = "ProcessNotFound"
                 /\ UNCHANGED <<request, blocking_requests>>
            ELSE IF s \notin DOMAIN strategies
            THEN /\ api'.pc = "done"
                 /\ api'.exc = "StrategyNotRegistered"
                 /\ UNCHANGED <<request, blocking_requests>>
            ELSE /\ api'.pc = "waiting"
                 /\ request'.endpoint = "create_worker"
                 /\ request'.to = h
                 /\ request'.name = s
                 /\ request'.worker = w
                 /\ blocking_requests' = blocking_requests \cup {request'.rid}

C14_CreateWorkerChecks == [][CreateWorkerChecked]_vars

\* create_worker for a registered strategy on a host that is not in the
\* table, while another host is, was refused with nothing on the way.
C14_Witness ==
    /\ api.op = "create_worker"
    /\ api.pc = "done"
    /\ api.exc = "ProcessNotFound"
    /\ api.name \in DOMAIN strategies
    /\ kx_processes # <<>>
    /\ request = NoFrame
    /\ blocking_requests = {}

(***************************************************************************)
(* C15: the host's create_worker endpoint, asked for an identifier that is *)
(* in the host's worker table, answers with status error and leaves the    *)
(* table, the record with its strategy and status, as it was; the kind is  *)
(* WorkerAlreadyExistsError when the strategy is known to the host.  Asked *)
(* for a strategy the host does not know, it answers with status error of  *)
(* kind StrategyNotFoundError and adds no record.                          *)
(***************************************************************************)
CreateWorkerRefused ==
    (RemoteEndpoint /\ request.endpoint = "create_worker") =>
        LET h == request.to IN
        /\ request.worker \in DOMAIN kx_workers[h] =>
              /\ response'.data.status = "error"
              /\ request.name \in kx_strategies[h] =>
                    response'.data.type = "WorkerAlreadyExistsError"
              /\ kx_workers' = kx_workers
        /\ request.name \notin kx_strategies[h] =>
              /\ response'.data.status = "error"
              /\ response'.data.type = "StrategyNotFoundError"
              /\ kx_workers' = kx_workers

MissingWorkerReported ==
    /\ (/\ RemoteEndpoint
        /\ request.endpoint \in WorkerOps
        /\ request.worker \notin DOMAIN kx_workers[request.to]) =>
            /\ response'.data.status = "error"
            /\ response'.data.type = "WorkerNotFoundError"
            /\ kx_workers' = kx_workers
    /\ (/\ ApiResponse
        /\ api.op \in WorkerOps
        /\ response.data.type = "WorkerNotFoundError") =>
            /\ api'.pc = "done"
            /\ api'.exc = "WorkerNotFoundError"

ReturnedWhenConnected ==
    (api.op = "create_process_and_wait" /\ api.pc = "done" /\ api.exc = "none")
        => api.host \in Range(kx_processes)

RaisedWhenAbsent ==
    (/\ api.op = "create_process_and_wait"
     /\ api.pc # "done"
     /\ api'.pc = "done"
     /\ api'.exc = "ProcessLaunchError") =>
        /\ api.acc >= PollLimit
        /\ api.host \notin Range(kx_processes)
        /\ api.host \notin Range(kx_processes')

C17_WaitReturnsWhenConnected ==
    []ReturnedWhenConnected /\ [][RaisedWhenAbsent]_vars

\* The call has raised ProcessLaunchError, and the host has connected after
\* that.
C17_Witness ==
    /\ api.op = "create_process_and_wait"
    /\ api.pc = "done"
    /\ api.exc = "ProcessLaunchError"
    /\ api.host \in Range(kx_processes)

(***************************************************************************)
(* C18: a call of send_and_block, send or send_response of the Core that   *)
(* is over has not raised; send and send_response have put a frame for the *)
(* given endpoint on the way to the given process.                         *)
(***************************************************************************)
C18_CoreSendReachesHost ==
    (api.op \in SendOps /\ api.pc = "done") =>
        /\ api.exc = "none"
        /\ api.op \in {"send", "send_response"} =>
              (request # NoFrame /\ request.to = api.host
                                 /\ request.endpoint = api.name)

(***************************************************************************)
(* C21: every entry of blocking_requests belongs to a call that is inside  *)
(* send_blocking_request with that rid (the entry is made before the frame *)
(* is sent); once the call has returned or raised, also when send_data     *)
(* failed, the entry is gone.                                              *)
(***************************************************************************)
C21_EntryOnlyWhileWaiting ==
    \A p \in Peers : \A rid \in DOMAIN pending[p] :
        \E t \in Callers : /\ caller[p][t].rid = rid
                           /\ caller[p][t].pc \in {"inserted", "waiting"}

(***************************************************************************)
(* C22: the bytes written to one connection are whole writes one after the *)
(* other: no byte of another frame or of a keepalive lies between the      *)
(* bytes of one frame, whichever threads write at the same time.           *)
(***************************************************************************)
C22_WritesNotInterleaved == WholeWrites(wire)

(***************************************************************************)
(* C23: the callbacks of on_server_closed, and those of on_client_closed   *)
(* of a client, have run at most once, however many times close() was      *)
(* called on the instance.                                                 *)
(***************************************************************************)
C23_ClosedTriggeredOnce ==
    /\ on_server_closed <= 1
    /\ \A c \in Clients : on_client_closed[c] <= 1

(***************************************************************************)
(* C24: once the server's close() has been called, the accept thread       *)
(* stops and every receive thread ends (its connection popped and          *)
(* on_connection_closed triggered), also a receive thread that is inside a *)
(* handler.                                                                *)
(***************************************************************************)
C24_LoopsExitAfterClose ==
    ipc_server_closed ~>
        /\ accept_thread = "stopped"
        /\ \A t \in DOMAIN listeners :
              /\ listeners[t].pc = "done"
              /\ Len(on_connection_closed[t]) = 1

(***************************************************************************)
(* C25: the receive thread of a peer never ends on what a handler or a     *)
(* callback raises, nor on a frame with an unknown rtype or without an     *)
(* envelope field: in the step that reads such a frame the error is logged,*)
(* the frame is consumed, the frames behind it stay in place and the       *)
(* thread is back in its loop, where it reads them.                        *)
(***************************************************************************)
FaultyHead(p) ==
    /\ inbox[p] # <<>>
    /\ LET f == Head(inbox[p]) IN
        \/ KeyErrorRaised(f)
        \/ f.rtype \notin {FIRE_AND_FORGET, BLOCKING, RESPONSE}
        \/ f.endpoint \in Raising

LoopAlive == \A p \in Peers : rx[p].pc # "dead"

ErrorCaught ==
    \A p \in Peers :
        /\ (RecvFrame(p) /\ FaultyHead(p)) =>
              /\ rx'[p] = RxIdle
              /\ inbox'[p] = Tail(inbox[p])
              /\ \E k \in {"KeyError", "UnknownRequestType",
                           "RequestHandlerError"} : k \in warnings'[p]
              /\ UNCHANGED <<pending, caller, respSent, returned>>
        /\ RecvFrameCallbackRaises(p) =>
              /\ rx'[p] = RxIdle
              /\ inbox'[p] = Tail(inbox[p])
              /\ "EventCallbackError" \in warnings'[p]
              /\ Head(inbox[p]).endpoint \in handled'[p]

C25_HandlerErrorsCaught == []LoopAlive /\ [][ErrorCaught]_vars

\* The host has logged an error of each kind, and after them it has served
\* a blocking call, which has returned, and run a one-way handler.
C25_Witness ==
    /\ {"KeyError", "UnknownRequestType", "RequestHandlerError",
        "EventCallbackError"} \subseteq warnings["host"]
    /\ inbox["host"] = <<>>
    /\ \E t \in Pool : /\ caller["core"][t].pc = "waiting"
                       /\ caller["core"][t].endpoint = "boom"
                       /\ \E r \in DOMAIN returned : r > caller["core"][t].rid

C27_SerializeRoundTrip ==
    stage = "deserialized" =>
        /\ err.class = before.class
        /\ err.base_msg = before.base_msg
        /\ err.traceback = before.traceback
        /\ err.context = before.context

\* An error with three notes and a traceback of its own has crossed.
C27_Witness ==
    /\ stage = "deserialized"
    /\ Len(before.context) = 3
    /\ before.class \in WorkerErrorClasses
    /\ before.traceback # before.base_msg
    /\ err = before


(***************************************************************************)
(* C28: a Core configured with an empty auth_key generates a key itself:   *)
(* once configure has made the server, the key of the listener is not      *)
(* empty, and no client that presented an empty key is answered valid.     *)
(***************************************************************************)
C28_EmptyKeyGenerated ==
    /\ server_auth_key # "None" => server_auth_key # ""
    /\ \A c \in Clients : login[c].st = "valid" => login[c].key # ""

(***************************************************************************)
(* C29: __start__ on a worker that holds a thread handle fails with        *)
(* WorkerAlreadyStarted and changes nothing: no strategy thread is made,   *)
(* no component's __start__ runs again, the status and the handle stay.    *)
(* __stop__ on a worker with no thread handle fails with                   *)
(* WorkerAlreadyStopped and leaves the status, the handle and the          *)
(* components as they are.                                                 *)
(***************************************************************************)
StartOnStarted ==
    /\ StartWorker
    /\ WorkerId \in workers
    /\ thread # 0

StopOnStopped ==
    /\ StopWorker
    /\ WorkerId \in workers
    /\ thread = 0

RejectedUntouched ==
    /\ StartOnStarted =>
          /\ outcome' = "WorkerAlreadyStarted"
          /\ op' = Idle
          /\ UNCHANGED <<worker_status, thread, sthreads, components, trace>>
    /\ StopOnStopped =>
          /\ outcome' = "WorkerAlreadyStopped"
          /\ op' = Idle
          /\ UNCHANGED <<worker_status, thread, sthreads, components, trace>>

C29_RejectedChangesNothing == [][RejectedUntouched]_vars

\* A worker was made, stopped while it had no thread, started, and started
\* once more while it was running: one thread, one run of the components.
C29_Witness ==
    /\ issued = <<"create_worker", "stop_worker", "start_worker",
                  "start_worker">>
    /\ outcome = "WorkerAlreadyStarted"
    /\ worker_status = RUNNING
    /\ thread = 1
    /\ Len(sthreads) = 1
    /\ components.started = 1
    /\ components.stopped = 0

(***************************************************************************)
(* C30: __stop__ on a started worker always terminates.  Either a strategy *)
(* thread has seen STOPPING in check_status, run stop_strategy and set     *)
(* STOPPED, and then __stop__ empties the thread handle and stops the      *)
(* components; or the status never becomes STOPPED, and then __stop__      *)
(* gives the 60 s warning exactly once and fails with                      *)
(* WorkerStoppingTimeout when the timer is past 600 s, emptying the        *)
(* handle.  Every stop_worker is answered in the end.                      *)
(***************************************************************************)
Polling == op.pc = "poll"

StopPending == op.name = "stop_worker" /\ op.pc # "idle"

\* The step with which __stop__ leaves its loop.
StopEnds ==
    (Polling /\ op'.pc # "poll") =>
        /\ thread' = 0
        /\ \/ /\ worker_status = STOPPED
              /\ \E k \in DOMAIN sthreads : sthreads[k] \in {"exit", "dead"}
              /\ components'.stopped = components.stopped + 1
              /\ op.name = "stop_worker" =>
                    outcome' \in {"ok", "StrategyComponentStoppingError"}
           \/ /\ worker_status # STOPPED
              /\ op.timer > TimeoutPolls
              /\ stop_warnings = 1
              /\ UNCHANGED components
              /\ op.name = "stop_worker" => outcome' = "WorkerStoppingTimeout"

C31_OpenedBeforeStart ==
    components.started > 0 => components.opened = 1

(***************************************************************************)
(* C32: per-worker routing.  After any registrations of worker endpoints   *)
(* of the two kinds, a request of a kind to a name whose data names worker *)
(* w invokes the callback last registered for the name and w in the table  *)
(* of that kind and no other; a request whose worker has no callback there *)
(* invokes none and is logged as an error.                                 *)
(***************************************************************************)
TableOf(kind) ==
    IF kind = FIRE_AND_FORGET THEN worker_endpoints
                              ELSE worker_blocking_endpoints

RoutedToRegistered ==
    \A kind \in Kinds, name \in EndpointNames, w \in RoutedWorkers :
        WorkerRequest(kind, name, w) =>
            IF TableOf(kind)[name].cb[w] # NoCallback
            THEN /\ routed'.invoked = {<<w, TableOf(kind)[name].cb[w]>>}
                 /\ routed'.logged = {}
            ELSE /\ routed'.invoked = {}
                 /\ routed'.logged # {}

C32_WorkerRouting == [][RoutedToRegistered]_vars

(***************************************************************************)
(* C33: keepalive traffic is invisible to the message layer.  The          *)
(* keepalive byte of the peer's idle receive loop delivers no message and  *)
(* neither changes nor prevents the delivery of a frame before or after    *)
(* it, however the bytes are grouped into reads.  Stated for one frame on  *)
(* the connection, which keeps the loss of what follows a sentinel in a    *)
(* read (C3) out of it: nothing but what was sent is delivered, and once   *)
(* every byte has been read the frame has been delivered.                  *)
(***************************************************************************)
C33_KeepaliveInvisible ==
    Len(sent) <= 1 =>
        /\ IsPrefix(delivered, sent)
        /\ wire = <<>> => delivered = sent

(***************************************************************************)
(* C34: host readiness.  Whenever a host identifier is in the Core's host  *)
(* table, the host has installed its request handler and registered its    *)
(* native endpoints, so the blocking request the Core sends right after    *)
(* create_process_and_wait has returned is neither dropped nor reported as *)
(* an unknown endpoint.                                                    *)
(***************************************************************************)
C34_HostReadyWhenListed ==
    \A h \in Hosts :
        /\ h \in host_table => boot[h] = "ready"
        /\ request_outcome[h] \in {"none", "answered"}

(***************************************************************************)
(* C35: a frame whose bytes are no JSON document affects only itself: it   *)
(* is dropped, the receive buffer is empty again before the next frame is  *)
(* accumulated, and a well-formed frame that comes later on the connection *)
(* is decoded and delivered unchanged.  Stated for one well-formed frame   *)
(* on the connection: when only frames that are no document were written   *)
(* and every byte has been read the buffer is empty, and when the          *)
(* well-formed frame was written and every byte has been read it has been  *)
(* delivered.                                                              *)
(***************************************************************************)
C35_BadFrameDropped ==
    /\ (sent = <<>> /\ wire = <<>>) => buffer = <<>>
    /\ (Len(sent) = 1 /\ wire = <<>>) => delivered = sent

(***************************************************************************)
(* C36: at most one strategy thread of a worker is alive at any time,      *)
(* after any sequence of __start__, __stop__ and __close__, also after a   *)
(* __start__ that follows a __stop__ which failed with                     *)
(* WorkerStoppingTimeout while the old thread was still running.           *)
(***************************************************************************)
\* Threads still in the strategy's code; a thread that has assigned STOPPED
\* and is leaving through exit(0) is not counted.
InStrategy(k) == sthreads[k] \in {"loop", "stop_strategy"}

LiveThreads == {k \in DOMAIN sthreads : InStrategy(k)}

C36_OneLiveThread == Cardinality(LiveThreads) <= 1

(***************************************************************************)
(* C37: when a component's __start__ raises during __start__, the call     *)
(* fails with StrategyComponentStartingError, no strategy thread is made,  *)
(* the handle stays empty, the status stays STOPPED and the components     *)
(* that come later in the insertion order are not started.                 *)
(***************************************************************************)
ComponentRaises ==
    /\ StartWorker
    /\ WorkerId \in workers
    /\ thread = 0
    /\ components'.raiser # "none"

\* the components after the one that raised, in insertion order
LaterComponents(raiser) ==
    {ComponentOrder[j] : j \in {i \in 1..Len(ComponentOrder) :
        \E r \in 1..(i - 1) : ComponentOrder[r] = raiser}}

FailedStartHandled ==
    ComponentRaises =>
        /\ outcome' = "StrategyComponentStartingError"
        /\ sthreads' = sthreads
        /\ thread' = 0
        /\ op'.pc = "idle"
        /\ components'.raiser \in Range(components'.start_calls)
        /\ Range(components'.start_calls)
               \cap LaterComponents(components'.raiser) = {}

FailedStartStopped ==
    ComponentRaises => worker_status' = STOPPED

C37_ComponentStartFails ==
    [][FailedStartHandled /\ FailedStartStopped]_vars

\* the parts of the property that do not speak of the status
FailedStartRest == [][FailedStartHandled]_vars

(***************************************************************************)
(* C38: whenever close_worker answers success and removes the worker       *)
(* record, the worker has no live strategy thread and its status is        *)
(* STOPPED; whenever __close__ fails (in __stop__, in close_strategy or in *)
(* a component's __close__) close_worker answers an error and the record   *)
(* stays in the worker table.                                              *)
(***************************************************************************)
CloseErrors ==
    {"WorkerStoppingError", "StrategyClosingError",
     "StrategyComponentClosingError"}

ClosedClean ==
    (op.name = "close_worker" /\ outcome' = "ok") =>
        /\ WorkerId \notin workers'
        /\ \A k \in DOMAIN sthreads' : ~InStrategy(k)'
        /\ worker_status' = STOPPED

CloseFailedKept ==
    (op.name = "close_worker" /\ outcome' \in CloseErrors) =>
        /\ WorkerId \in workers'
        /\ op'.pc = "idle"

C38_CloseWorkerOutcome == [][ClosedClean /\ CloseFailedKept]_vars

\* the second half alone
CloseFailuresKeepRecord == [][CloseFailedKept]_vars

(***************************************************************************)
(* C39: when a handler sends two RESPONSE frames for one rid, the blocking *)
(* call that made the request returns the data of the first one, the       *)
(* second one is dropped as an unknown rid, and no other pending request   *)
(* is completed or altered by it.                                          *)
(***************************************************************************)
FirstResponseReturned ==
    \A r \in DOMAIN returned :
        respSent[r] # <<>> => returned[r] = respSent[r][1]

\* a waiter is released once for a request, and a slot holds nothing but a
\* response sent for its own rid
SlotsOwnResponse ==
    \A r \in DOMAIN pending["core"] :
        /\ pending["core"][r].sem <= 1
        /\ pending["core"][r].sem = 1 =>
               /\ respSent[r] # <<>>
               /\ pending["core"][r].resp = respSent[r][1]

C39_SecondResponseDropped == FirstResponseReturned /\ SlotsOwnResponse

\* the part about the other pending requests
OthersUntouched ==
    /\ \A r \in DOMAIN returned :
           \E i \in DOMAIN respSent[r] : returned[r] = respSent[r][i]
    /\ \A r \in DOMAIN pending["core"] :
           pending["core"][r].sem > 0 =>
               \E i \in DOMAIN respSent[r] : pending["core"][r].resp = respSent[r][i]

(***************************************************************************)
(* C40: a client that opens a connection and never sends its handshake     *)
(* payload, or sends a payload that is no JSON, does not stop the server   *)
(* from accepting: every client that connects with the right key is        *)
(* accepted in the end.                                                    *)
(***************************************************************************)
C40_KeyedClientAccepted ==
    \A c \in PeerIds : (peer_kind[c] = "keyed") ~> (c \in accepted)

\* A client that has sent nothing and keeps its socket open
Silent(c) == peer_kind[c] = "silent" /\ peer_open[c]

\* the same with no client that stays silent: a payload that is no JSON
\* and a client that closes without a payload do not stop the loop
GarbageDoesNotBlock ==
    \A c \in PeerIds :
        (peer_kind[c] = "keyed")
            ~> (c \in accepted \/ (accept_pc = "recv" /\ Silent(connection)))
====
